---- MODULE Spec2Model ----
(***************************************************************************)
(* A model of the User service of go-scaffolding: the domain entity       *)
(* (internal/user/domain), the service use cases (internal/user/service)  *)
(* and the GORM repository over the "users" table                         *)
(* (internal/user/adapters/postgres, migrations), the HTTP handlers over   *)
(* the service (internal/user/adapters/http) and the health checker       *)
(* (internal/infrastructure/health).                                      *)
(*                                                                         *)
(* Strings are sequences of one-character strings.  Time is a natural     *)
(* number read from one clock that never goes backwards.  Identifiers     *)
(* (uuid.New) are fresh naturals.  A use case runs as a call whose store  *)
(* calls are atomic steps, so that calls interleave between them.         *)
(***************************************************************************)
EXTENDS Integers, Sequences, FiniteSets, TLC

VARIABLES db, clock, uuids, calls, budget, requests, checks, runs

vars == <<db, clock, uuids, calls, budget, requests, checks, runs>>

-----------------------------------------------------------------------------
(* Bounds of the model *)

\* number of service calls in one behaviour
MaxCalls == 3

\* largest value the clock reaches
MaxTime == 2

\* number of store calls that fail in the database (a cancelled context, a lost
\* connection) in one behaviour of SpecFaulty
MaxFaults == 1

\* number of service calls in one behaviour of SpecFair
MaxFairCalls == 2

\* number of HTTP requests in one behaviour of SpecHTTP
MaxRequests == 2

\* number of calls of the health checker in one behaviour of SpecHealth
MaxRuns == 4

\* longest email enumerated over EmailAlphabet in SpecDomain
MaxEmailLen == 7

\* number of UpdateName calls on one entity in SpecDomain
MaxRenames == 2

-----------------------------------------------------------------------------
(* Strings *)

Str(n, c) == [i \in 1..n |-> c]

\* "E9" stands for a rune that takes two bytes in UTF-8
WideRune == "E9"

\* len(s) of Go: the number of bytes
len(s) == Len(s) + Cardinality({i \in DOMAIN s : s[i] = WideRune})

IsSpace(c) == c \in {" ", "\t", "\n"}

RECURSIVE TrimLeft(_)
TrimLeft(s) == IF s # <<>> /\ IsSpace(Head(s)) THEN TrimLeft(Tail(s)) ELSE s

RECURSIVE TrimRight(_)
TrimRight(s) ==
    IF s # <<>> /\ IsSpace(s[Len(s)]) THEN TrimRight(SubSeq(s, 1, Len(s) - 1)) ELSE s

\* a trim that removes one white space character at each end
TrimSpace_Once(s) ==
    LET left == IF s # <<>> /\ IsSpace(Head(s)) THEN Tail(s) ELSE s
    IN  IF left # <<>> /\ IsSpace(left[Len(left)]) THEN SubSeq(left, 1, Len(left) - 1)
        ELSE left

\* strings.TrimSpace
TrimSpace(s) == TrimRight(TrimLeft(s))

\* strings.Contains on strings of characters
Contains(s, sub) ==
    \E i \in 0..(Len(s) - Len(sub)) : SubSeq(s, i + 1, i + Len(sub)) = sub

HasPrefix(s, c) == s # <<>> /\ s[1] = c

HasSuffix(s, c) == s # <<>> /\ s[Len(s)] = c

\* strings.Split(s, sep) for a one-character separator
RECURSIVE Split(_, _)
Split(s, sep) ==
    LET at == {i \in DOMAIN s : s[i] = sep}
    IN  IF at = {} THEN <<s>>
        ELSE LET i == CHOOSE k \in at : \A m \in at : k <= m
             IN  <<SubSeq(s, 1, i - 1)>> \o Split(SubSeq(s, i + 1, Len(s)), sep)

-----------------------------------------------------------------------------
(* internal/user/domain: errors *)

\* An error value is the sequence of the fragments of its message; nil is empty.
NoErr == <<>>
ErrUserNotFound == <<"user not found">>
ErrInvalidEmail == <<"invalid email format">>
ErrInvalidName == <<"name cannot be empty">>
ErrDuplicateEmail == <<"email already exists">>

-----------------------------------------------------------------------------
(* internal/user/domain: User *)

maxEmailLength == 254
maxNameLength == 255

Lower == {"a", "b", "c", "d", "e", "f", "g", "h", "i", "j", "k", "l", "m",
          "n", "o", "p", "q", "r", "s", "t", "u", "v", "w", "x", "y", "z"}
Upper == {"A", "B", "C", "D", "E", "F", "G", "H", "I", "J", "K", "L", "M",
          "N", "O", "P", "Q", "R", "S", "T", "U", "V", "W", "X", "Y", "Z"}
Digit == {"0", "1", "2", "3", "4", "5", "6", "7", "8", "9"}

\* [a-zA-Z]
IsLetter(c) == c \in Lower \cup Upper
\* [a-zA-Z0-9._%+-]
IsLocalChar(c) == IsLetter(c) \/ c \in Digit \/ c \in {".", "_", "%", "+", "-"}
\* [a-zA-Z0-9.-]
IsDomainChar(c) == IsLetter(c) \/ c \in Digit \/ c \in {".", "-"}

\* ^[a-zA-Z0-9._%+-]+@[a-zA-Z0-9.-]+\.[a-zA-Z]{2,}$ : an "@" at i and a "."
\* at j split s into a local part, a domain and a final label.
emailRegex(s) ==
    \E i \in {k \in DOMAIN s : s[k] = "@"} :
        \E j \in {k \in DOMAIN s : s[k] = "." /\ k > i} :
            /\ i > 1
            /\ \A k \in 1..(i - 1) : IsLocalChar(s[k])
            /\ j > i + 1
            /\ \A k \in (i + 1)..(j - 1) : IsDomainChar(s[k])
            /\ Len(s) - j >= 2
            /\ \A k \in (j + 1)..Len(s) : IsLetter(s[k])

\* isValidEmail with the regular expression alone
isValidEmail_RegexOnly(email) ==
    IF len(email) > maxEmailLength THEN FALSE ELSE emailRegex(email)

\* isValidEmail refusing an email of maxEmailLength
isValidEmail_LengthOffByOne(email) ==
    IF len(email) >= maxEmailLength THEN FALSE
    ELSE IF ~emailRegex(email) THEN FALSE
    ELSE LET parts == Split(email, "@")
         IN  IF Len(parts) # 2 THEN FALSE
             ELSE LET local == parts[1]
                      domain == parts[2]
                  IN  IF Contains(email, <<".", ".">>) THEN FALSE
                      ELSE IF HasPrefix(local, ".") \/ HasSuffix(local, ".") THEN FALSE
                      ELSE IF HasPrefix(domain, ".") \/ HasSuffix(domain, ".") THEN FALSE
                      ELSE TRUE

isValidEmail(email) ==
    IF len(email) > maxEmailLength THEN FALSE
    ELSE IF ~emailRegex(email) THEN FALSE
    ELSE LET parts == Split(email, "@")
         IN  IF Len(parts) # 2 THEN FALSE
             ELSE LET local == parts[1]
                      domain == parts[2]
                  IN  IF Contains(email, <<".", ".">>) THEN FALSE
                      ELSE IF HasPrefix(local, ".") \/ HasSuffix(local, ".") THEN FALSE
                      ELSE IF HasPrefix(domain, ".") \/ HasSuffix(domain, ".") THEN FALSE
                      ELSE TRUE

\* isValidName without the length check
isValidName_NoLength(name) == IF name = <<>> THEN ErrInvalidName ELSE NoErr

\* the error of isValidName
isValidName(name) ==
    IF name = <<>> THEN ErrInvalidName
    ELSE IF len(name) > maxNameLength THEN ErrInvalidName
    ELSE NoErr

\* a nil *domain.User
NilUser == [ID |-> 0, Email |-> <<>>, Name |-> <<>>, CreatedAt |-> 0, UpdatedAt |-> 0]

\* NewUser leaving UpdatedAt at the zero time
NewUser_NoUpdatedAt(email, name, id, t) ==
    IF ~isValidEmail(email) THEN [user |-> NilUser, err |-> ErrInvalidEmail]
    ELSE LET trimmed == TrimSpace(name)
         IN  IF isValidName(trimmed) # NoErr
             THEN [user |-> NilUser, err |-> isValidName(trimmed)]
             ELSE [user |-> [ID |-> id, Email |-> email, Name |-> trimmed,
                             CreatedAt |-> t, UpdatedAt |-> 0],
                   err |-> NoErr]

\* NewUser validating the name before the email
NewUser_NameFirst(email, name, id, t) ==
    LET trimmed == TrimSpace(name)
    IN  IF isValidName(trimmed) # NoErr
        THEN [user |-> NilUser, err |-> isValidName(trimmed)]
        ELSE IF ~isValidEmail(email) THEN [user |-> NilUser, err |-> ErrInvalidEmail]
        ELSE [user |-> [ID |-> id, Email |-> email, Name |-> trimmed,
                        CreatedAt |-> t, UpdatedAt |-> t],
              err |-> NoErr]

\* NewUser(email, name) with uuid.New() = id and time.Now() = t
NewUser(email, name, id, t) ==
    IF ~isValidEmail(email) THEN [user |-> NilUser, err |-> ErrInvalidEmail]
    ELSE LET trimmed == TrimSpace(name)
         IN  IF isValidName(trimmed) # NoErr
             THEN [user |-> NilUser, err |-> isValidName(trimmed)]
             ELSE [user |-> [ID |-> id, Email |-> email, Name |-> trimmed,
                             CreatedAt |-> t, UpdatedAt |-> t],
                   err |-> NoErr]

\* UpdateName assigning the name before it validates it
UpdateName_AssignsFirst(u, name, t) ==
    LET trimmed == TrimSpace(name)
    IN  IF isValidName(trimmed) # NoErr
        THEN [user |-> [u EXCEPT !.Name = trimmed], err |-> isValidName(trimmed)]
        ELSE [user |-> [u EXCEPT !.Name = trimmed, !.UpdatedAt = t], err |-> NoErr]

\* u.UpdateName(name) with time.Now() = t: the entity afterwards and the error
UpdateName(u, name, t) ==
    LET trimmed == TrimSpace(name)
    IN  IF isValidName(trimmed) # NoErr
        THEN [user |-> u, err |-> isValidName(trimmed)]
        ELSE [user |-> [u EXCEPT !.Name = trimmed, !.UpdatedAt = t], err |-> NoErr]

-----------------------------------------------------------------------------
(* internal/user/adapters/postgres: the "users" table behind GORM *)

\* ToUserModel leaving Name out
ToUserModel_DropsName(user) ==
    [ID |-> user.ID, Email |-> user.Email, Name |-> <<>>,
     CreatedAt |-> user.CreatedAt, UpdatedAt |-> user.UpdatedAt, DeletedAt |-> 0]

\* DeletedAt = 0 is NULL: the row is live
ToUserModel(user) ==
    [ID |-> user.ID, Email |-> user.Email, Name |-> user.Name,
     CreatedAt |-> user.CreatedAt, UpdatedAt |-> user.UpdatedAt, DeletedAt |-> 0]

ToDomainUser(model) ==
    [ID |-> model.ID, Email |-> model.Email, Name |-> model.Name,
     CreatedAt |-> model.CreatedAt, UpdatedAt |-> model.UpdatedAt]

ToDomainUsers(models) == [i \in DOMAIN models |-> ToDomainUser(models[i])]

\* errors of the database layer
ErrRecordNotFound == <<"record not found">>
ErrContext == <<"context deadline exceeded">>
\* the two drivers' messages for a violated unique index on users.email
PgUniqueEmail ==
    <<"ERROR: ", "duplicate key value violates unique constraint", " \"users_",
      "email", "_key\" (SQLSTATE 23505)">>
SqliteUniqueEmail == <<"UNIQUE constraint failed", ": users.", "email">>
PgUniquePkey ==
    <<"ERROR: ", "duplicate key value violates unique constraint", " \"users_pkey\"",
      " (SQLSTATE 23505)">>
SqliteUniquePkey == <<"UNIQUE constraint failed", ": users.id">>
Drivers == {"postgres", "sqlite"}
UniqueEmailMessage(driver) == IF driver = "postgres" THEN PgUniqueEmail ELSE SqliteUniqueEmail
UniquePkeyMessage(driver) == IF driver = "postgres" THEN PgUniquePkey ELSE SqliteUniquePkey

containsHelper(s, substr) ==
    \E i \in 0..(Len(s) - Len(substr)) : SubSeq(s, i + 1, i + Len(substr)) = substr

contains(s, substr) ==
    Len(s) >= Len(substr) /\
        (s = substr \/ Len(substr) = 0 \/
            (Len(s) > 0 /\ Len(substr) > 0 /\ containsHelper(s, substr)))

isDuplicateEmailError(err) ==
    IF err = NoErr THEN FALSE
    ELSE IF contains(err, <<"duplicate key value violates unique constraint">>)
            \/ contains(err, <<"UNIQUE constraint failed">>)
         THEN contains(err, <<"email">>)
         ELSE FALSE

\* a query that does not filter on deleted_at
Live_IncludesDeleted(rows) == rows

\* the rows a GORM query sees: deleted_at IS NULL
Live(rows) == SelectSeq(rows, LAMBDA m : m.DeletedAt = 0)

\* the email index checked on nothing
EmailTaken_NoIndex(rows, email) == FALSE

\* email VARCHAR(254) NOT NULL UNIQUE / gorm:"uniqueIndex": over every row of the
\* table, soft-deleted ones included
EmailTaken(rows, email) == \E i \in DOMAIN rows : rows[i].Email = email

IdTaken(rows, id) == \E i \in DOMAIN rows : rows[i].ID = id

\* INSERT INTO users: the table afterwards and the driver's error
Insert(rows, model, driver) ==
    IF IdTaken(rows, model.ID) THEN [rows |-> rows, Error |-> UniquePkeyMessage(driver)]
    ELSE IF EmailTaken(rows, model.Email)
    THEN [rows |-> rows, Error |-> UniqueEmailMessage(driver)]
    ELSE [rows |-> Append(rows, model), Error |-> NoErr]

\* userRepository.Create
Create(rows, user, fault, driver) ==
    LET model == ToUserModel(user)
        result == IF fault THEN [rows |-> rows, Error |-> ErrContext]
                  ELSE Insert(rows, model, driver)
    IN  IF result.Error # NoErr
        THEN IF isDuplicateEmailError(result.Error)
             THEN [rows |-> result.rows, err |-> ErrDuplicateEmail]
             ELSE [rows |-> result.rows, err |-> result.Error]
        ELSE [rows |-> result.rows, err |-> NoErr]

\* Where(column = value) over the rows a query sees
Where(rows, column, value) == SelectSeq(Live(rows), LAMBDA m : m[column] = value)

\* First(&model) over the rows found: the first one by primary key
First(found) ==
    IF found = <<>>
    THEN [model |-> ToUserModel(NilUser), Error |-> ErrRecordNotFound]
    ELSE [model |-> (CHOOSE m \in {found[i] : i \in DOMAIN found} :
                        \A i \in DOMAIN found : m.ID <= found[i].ID),
          Error |-> NoErr]

\* GetByID passing gorm.ErrRecordNotFound on as it is
GetByID_RawNotFound(rows, id, fault) ==
    LET result == IF fault THEN [model |-> ToUserModel(NilUser), Error |-> ErrContext]
                  ELSE First(Where(rows, "ID", id))
    IN  IF result.Error # NoErr THEN [user |-> NilUser, err |-> result.Error]
        ELSE [user |-> ToDomainUser(result.model), err |-> NoErr]

\* userRepository.GetByID
GetByID(rows, id, fault) ==
    LET result == IF fault THEN [model |-> ToUserModel(NilUser), Error |-> ErrContext]
                  ELSE First(Where(rows, "ID", id))
    IN  IF result.Error # NoErr
        THEN IF result.Error = ErrRecordNotFound
             THEN [user |-> NilUser, err |-> ErrUserNotFound]
             ELSE [user |-> NilUser, err |-> result.Error]
        ELSE [user |-> ToDomainUser(result.model), err |-> NoErr]

\* userRepository.GetByEmail
GetByEmail(rows, email, fault) ==
    LET result == IF fault THEN [model |-> ToUserModel(NilUser), Error |-> ErrContext]
                  ELSE First(Where(rows, "Email", email))
    IN  IF result.Error # NoErr
        THEN IF result.Error = ErrRecordNotFound
             THEN [user |-> NilUser, err |-> ErrUserNotFound]
             ELSE [user |-> NilUser, err |-> result.Error]
        ELSE [user |-> ToDomainUser(result.model), err |-> NoErr]

\* the trigger stamping created_at as well
update_updated_at_column_AlsoCreated(new, t) ==
    [new EXCEPT !.UpdatedAt = t, !.CreatedAt = t]

\* BEFORE UPDATE ON users FOR EACH ROW: NEW.updated_at = CURRENT_TIMESTAMP
update_updated_at_column(new, t) == [new EXCEPT !.UpdatedAt = t]

\* the UPDATE without "deleted_at IS NULL"
UpdateRows_Unscoped(rows, id, model, t) ==
    [rows |-> [i \in DOMAIN rows |->
                  IF rows[i].ID = id
                  THEN update_updated_at_column(
                           [rows[i] EXCEPT !.ID = model.ID, !.Email = model.Email,
                                           !.Name = model.Name,
                                           !.CreatedAt = model.CreatedAt,
                                           !.UpdatedAt = model.UpdatedAt], t)
                  ELSE rows[i]],
     RowsAffected |-> Cardinality({i \in DOMAIN rows : rows[i].ID = id}),
     Error |-> NoErr]

\* UPDATE users SET id, email, name, created_at, updated_at
\*   WHERE id = ? AND deleted_at IS NULL, at database time t
UpdateRows(rows, id, model, t) ==
    [rows |-> [i \in DOMAIN rows |->
                  IF rows[i].ID = id /\ rows[i].DeletedAt = 0
                  THEN update_updated_at_column(
                           [rows[i] EXCEPT !.ID = model.ID, !.Email = model.Email,
                                           !.Name = model.Name,
                                           !.CreatedAt = model.CreatedAt,
                                           !.UpdatedAt = model.UpdatedAt], t)
                  ELSE rows[i]],
     RowsAffected |-> Cardinality({i \in DOMAIN rows :
                                     rows[i].ID = id /\ rows[i].DeletedAt = 0}),
     Error |-> NoErr]

\* userRepository.Update
Update(rows, user, fault, t) ==
    LET model == ToUserModel(user)
        result == IF fault THEN [rows |-> rows, RowsAffected |-> 0, Error |-> ErrContext]
                  ELSE UpdateRows(rows, user.ID, model, t)
    IN  IF result.Error # NoErr THEN [rows |-> rows, err |-> result.Error]
        ELSE IF result.RowsAffected = 0 THEN [rows |-> rows, err |-> ErrUserNotFound]
        ELSE [rows |-> result.rows, err |-> NoErr]

\* Delete(&UserModel{}) with a gorm.DeletedAt field:
\* UPDATE users SET deleted_at = t WHERE id = ? AND deleted_at IS NULL
SoftDeleteRows(rows, id, t) ==
    [rows |-> [i \in DOMAIN rows |->
                  IF rows[i].ID = id /\ rows[i].DeletedAt = 0
                  THEN update_updated_at_column([rows[i] EXCEPT !.DeletedAt = t], t)
                  ELSE rows[i]],
     RowsAffected |-> Cardinality({i \in DOMAIN rows :
                                     rows[i].ID = id /\ rows[i].DeletedAt = 0}),
     Error |-> NoErr]

\* Delete without the check of RowsAffected
Delete_NoRowsCheck(rows, id, fault, t) ==
    LET result == IF fault THEN [rows |-> rows, RowsAffected |-> 0, Error |-> ErrContext]
                  ELSE SoftDeleteRows(rows, id, t)
    IN  IF result.Error # NoErr THEN [rows |-> rows, err |-> result.Error]
        ELSE [rows |-> result.rows, err |-> NoErr]

\* userRepository.Delete
Delete(rows, id, fault, t) ==
    LET result == IF fault THEN [rows |-> rows, RowsAffected |-> 0, Error |-> ErrContext]
                  ELSE SoftDeleteRows(rows, id, t)
    IN  IF result.Error # NoErr THEN [rows |-> rows, err |-> result.Error]
        ELSE IF result.RowsAffected = 0 THEN [rows |-> rows, err |-> ErrUserNotFound]
        ELSE [rows |-> result.rows, err |-> NoErr]

\* ORDER BY created_at DESC leaves the order of rows with equal created_at open:
\* the orders of the live rows the database may answer with
Orderings(rows) ==
    LET live == Live(rows)
        n == Len(live)
    IN  {[i \in 1..n |-> live[f[i]]] :
            f \in {g \in [1..n -> 1..n] :
                     /\ \A i, j \in 1..n : i # j => g[i] # g[j]
                     /\ \A i, j \in 1..n :
                            i < j => live[g[i]].CreatedAt >= live[g[j]].CreatedAt}}

\* LIMIT without OFFSET
Page_IgnoresOffset(ordered, limit, offset) ==
    IF limit >= 0 /\ limit < Len(ordered) THEN SubSeq(ordered, 1, limit) ELSE ordered

\* LIMIT limit OFFSET offset over the ordered rows (GORM omits a non-positive
\* OFFSET and a negative LIMIT)
Page(ordered, limit, offset) ==
    LET skipped == IF offset > 0 THEN SubSeq(ordered, offset + 1, Len(ordered))
                   ELSE ordered
    IN  IF limit >= 0 /\ limit < Len(skipped) THEN SubSeq(skipped, 1, limit) ELSE skipped

\* userRepository.List, the database answering in the order `ordered`
List(ordered, limit, offset, fault) ==
    IF fault THEN [users |-> <<>>, err |-> ErrContext]
    ELSE [users |-> ToDomainUsers(Page(ordered, limit, offset)), err |-> NoErr]

-----------------------------------------------------------------------------
(* internal/user/service: the use cases, as calls *)

\* what callers pass in
Alice == <<"a", "@", "b", ".", "c", "o">>
Carol == <<"c", "@", "d", ".", "i", "o">>
Emails == {Alice, Carol, <<"a", ".", ".", "b", "@", "c", ".", "i", "o">>}
CreateNames == {<<"A", "l">>, <<" ", "B", "o", "\t">>, <<" ", " ">>}
UpdateNames == {<<"A", "l">>, <<" ", "B", "o", "\t">>, <<>>, <<" ", " ">>,
                Str(maxNameLength + 1, "x")}
\* the identifiers generated so far, and 0, which is never generated
IDs == 0..uuids
Limits == {1, 2}
Offsets == {0, 1}

\* time.Now(), CURRENT_TIMESTAMP: the clock has not moved, or has moved on
Now == {t \in {clock, clock + 1} : t <= MaxTime}

Finished == {p \in DOMAIN calls : calls[p].pc = "done"}

\* whether the store call being made fails in the database
Faults == {f \in BOOLEAN : f => budget > 0}

Spend(fault) == IF fault THEN budget - 1 ELSE budget

\* a call of the use case op as it starts: `user` is the handler's entity and
\* `old` that entity as the store returned it, `ret` and `users` what the call
\* returns with `err`, `log` the store calls it has made and `prior` the calls
\* that had returned when it started
NewCall(op) ==
    [op |-> op, email |-> <<>>, name |-> <<>>, id |-> 0, limit |-> 0, offset |-> 0,
     pc |-> "done", user |-> NilUser, old |-> NilUser, ret |-> NilUser, users |-> <<>>,
     err |-> NoErr, log |-> <<>>, prior |-> Finished]

Logged(fn, err) == <<[fn |-> fn, err |-> err]>>

\* the HTTP adapter has answered no request; NewChecker: no check registered,
\* no call of the checker made
Elsewhere0 == requests = <<>> /\ checks = <<>> /\ runs = <<>>

\* a step of the service alone
Elsewhere == UNCHANGED <<requests, checks, runs>>

Init ==
    /\ db = <<>>
    /\ clock = 1
    /\ uuids = 0
    /\ calls = <<>>
    /\ budget = 0
    /\ Elsewhere0

\* CreateUser taking every lookup error for NotFound
lookedUp_AnyErrorIsNotFound(c, err) ==
    IF err = NoErr THEN [c EXCEPT !.err = ErrDuplicateEmail] ELSE [c EXCEPT !.pc = "NewUser"]

\* CreateUser answering a lookup that found a user with the lookup's own (nil) error
lookedUp_NoDuplicate(c, err) ==
    IF err # ErrUserNotFound THEN [c EXCEPT !.err = err] ELSE [c EXCEPT !.pc = "NewUser"]

\* CreateUser after repo.GetByEmail returned err: the checks on err
lookedUp(c, err) ==
    IF err = NoErr THEN [c EXCEPT !.err = ErrDuplicateEmail]
    ELSE IF err # ErrUserNotFound THEN [c EXCEPT !.err = err]
    ELSE [c EXCEPT !.pc = "NewUser"]

\* CreateUser up to the return of repo.GetByEmail
CreateUser(email, name) ==
    /\ \E fault \in Faults :
        LET r == GetByEmail(db, email, fault)
            c == [NewCall("CreateUser") EXCEPT !.email = email, !.name = name,
                                               !.log = Logged("GetByEmail", r.err)]
        IN  /\ budget' = Spend(fault)
            /\ calls' = Append(calls, lookedUp(c, r.err))
    /\ UNCHANGED <<db, clock, uuids>>

\* CreateUser: domain.NewUser
CreateUserNewUser(p) ==
    /\ calls[p].op = "CreateUser" /\ calls[p].pc = "NewUser"
    /\ \E t \in Now :
        LET r == NewUser(calls[p].email, calls[p].name, uuids + 1, t)
        IN  IF r.err # NoErr
            THEN /\ calls' = [calls EXCEPT ![p].pc = "done", ![p].err = r.err]
                 /\ UNCHANGED <<clock, uuids>>
            ELSE /\ calls' = [calls EXCEPT ![p].pc = "Create", ![p].user = r.user]
                 /\ clock' = t
                 /\ uuids' = uuids + 1
    /\ UNCHANGED <<db, budget>>

\* CreateUser calling repo.Create once more after it failed
CreateUserCreate_Retries(p) ==
    /\ calls[p].op = "CreateUser" /\ calls[p].pc = "Create"
    /\ \E fault \in Faults, driver \in Drivers :
        LET r == Create(db, calls[p].user, fault, driver)
            log == calls[p].log \o Logged("Create", r.err)
        IN  /\ budget' = Spend(fault)
            /\ db' = r.rows
            /\ calls' = IF r.err # NoErr /\ Len(log) < 3
                        THEN [calls EXCEPT ![p].log = log]
                        ELSE IF r.err # NoErr
                        THEN [calls EXCEPT ![p].pc = "done", ![p].err = r.err,
                                           ![p].log = log]
                        ELSE [calls EXCEPT ![p].pc = "done", ![p].ret = calls[p].user,
                                           ![p].log = log]
    /\ UNCHANGED <<clock, uuids>>

\* CreateUser: repo.Create and the return
CreateUserCreate(p) ==
    /\ calls[p].op = "CreateUser" /\ calls[p].pc = "Create"
    /\ \E fault \in Faults, driver \in Drivers :
        LET r == Create(db, calls[p].user, fault, driver)
            log == calls[p].log \o Logged("Create", r.err)
        IN  /\ budget' = Spend(fault)
            /\ db' = r.rows
            /\ calls' = IF r.err # NoErr
                        THEN [calls EXCEPT ![p].pc = "done", ![p].err = r.err,
                                           ![p].log = log]
                        ELSE [calls EXCEPT ![p].pc = "done", ![p].ret = calls[p].user,
                                           ![p].log = log]
    /\ UNCHANGED <<clock, uuids>>

\* GetUser
GetUser(id) ==
    /\ \E fault \in Faults :
        LET r == GetByID(db, id, fault)
        IN  /\ budget' = Spend(fault)
            /\ calls' = Append(calls, [NewCall("GetUser") EXCEPT
                            !.id = id, !.ret = r.user, !.err = r.err,
                            !.log = Logged("GetByID", r.err)])
    /\ UNCHANGED <<db, clock, uuids>>

\* GetUserByEmail
GetUserByEmail(email) ==
    /\ \E fault \in Faults :
        LET r == GetByEmail(db, email, fault)
        IN  /\ budget' = Spend(fault)
            /\ calls' = Append(calls, [NewCall("GetUserByEmail") EXCEPT
                            !.email = email, !.ret = r.user, !.err = r.err,
                            !.log = Logged("GetByEmail", r.err)])
    /\ UNCHANGED <<db, clock, uuids>>

\* UpdateUser up to the return of repo.GetByID
UpdateUser(id, name) ==
    /\ \E fault \in Faults :
        LET r == GetByID(db, id, fault)
            c == [NewCall("UpdateUser") EXCEPT !.id = id, !.name = name,
                                               !.log = Logged("GetByID", r.err)]
        IN  /\ budget' = Spend(fault)
            /\ calls' = Append(calls,
                    IF r.err # NoErr THEN [c EXCEPT !.err = r.err]
                    ELSE [c EXCEPT !.pc = "UpdateName", !.user = r.user,
                                   !.old = r.user])
    /\ UNCHANGED <<db, clock, uuids>>

\* UpdateUser: user.UpdateName
UpdateUserUpdateName(p) ==
    /\ calls[p].op = "UpdateUser" /\ calls[p].pc = "UpdateName"
    /\ \E t \in Now :
        LET r == UpdateName(calls[p].user, calls[p].name, t)
        IN  IF r.err # NoErr
            THEN /\ calls' = [calls EXCEPT ![p].pc = "done", ![p].err = r.err,
                                           ![p].user = r.user]
                 /\ UNCHANGED clock
            ELSE /\ calls' = [calls EXCEPT ![p].pc = "Update", ![p].user = r.user]
                 /\ clock' = t
    /\ UNCHANGED <<db, uuids, budget>>

\* UpdateUser: repo.Update and the return
UpdateUserUpdate(p) ==
    /\ calls[p].op = "UpdateUser" /\ calls[p].pc = "Update"
    /\ \E fault \in Faults, t \in Now :
        LET r == Update(db, calls[p].user, fault, t)
            log == calls[p].log \o Logged("Update", r.err)
        IN  /\ budget' = Spend(fault)
            /\ db' = r.rows
            /\ clock' = IF r.err = NoErr THEN t ELSE clock
            /\ calls' = IF r.err # NoErr
                        THEN [calls EXCEPT ![p].pc = "done", ![p].err = r.err,
                                           ![p].log = log]
                        ELSE [calls EXCEPT ![p].pc = "done", ![p].ret = calls[p].user,
                                           ![p].log = log]
    /\ UNCHANGED uuids

\* DeleteUser
DeleteUser(id) ==
    /\ \E fault \in Faults, t \in Now :
        LET r == Delete(db, id, fault, t)
        IN  /\ budget' = Spend(fault)
            /\ db' = r.rows
            /\ clock' = IF r.err = NoErr THEN t ELSE clock
            /\ calls' = Append(calls, [NewCall("DeleteUser") EXCEPT
                            !.id = id, !.err = r.err, !.log = Logged("Delete", r.err)])
    /\ UNCHANGED uuids

\* ListUsers
ListUsers(limit, offset) ==
    /\ \E fault \in Faults, ordered \in Orderings(db) :
        LET r == List(ordered, limit, offset, fault)
        IN  /\ budget' = Spend(fault)
            /\ calls' = Append(calls, [NewCall("ListUsers") EXCEPT
                            !.limit = limit, !.offset = offset, !.users = r.users,
                            !.err = r.err, !.log = Logged("List", r.err)])
    /\ UNCHANGED <<db, clock, uuids>>

\* a caller starts a use case
Start ==
    \/ \E email \in Emails, name \in CreateNames : CreateUser(email, name)
    \/ \E id \in IDs : GetUser(id)
    \/ \E email \in Emails : GetUserByEmail(email)
    \/ \E id \in IDs, name \in UpdateNames : UpdateUser(id, name)
    \/ \E id \in IDs : DeleteUser(id)
    \/ \E limit \in Limits, offset \in Offsets : ListUsers(limit, offset)

\* a use case that is under way goes on
Step ==
    \/ \E p \in DOMAIN calls : CreateUserNewUser(p)
    \/ \E p \in DOMAIN calls : CreateUserCreate(p)
    \/ \E p \in DOMAIN calls : UpdateUserUpdateName(p)
    \/ \E p \in DOMAIN calls : UpdateUserUpdate(p)

Next ==
    \/ Len(calls) < MaxCalls /\ Start /\ Elsewhere
    \/ Step /\ Elsewhere

Spec == Init /\ [][Next]_vars

\* the same service over a database that may fail store calls
InitFaulty ==
    /\ db = <<>>
    /\ clock = 1
    /\ uuids = 0
    /\ calls = <<>>
    /\ budget = MaxFaults
    /\ Elsewhere0

SpecFaulty == InitFaulty /\ [][Next]_vars

\* the same, every use case under way going on: a handler's goroutine is
\* scheduled again after each of its store calls returns
NextFair ==
    \/ Len(calls) < MaxFairCalls /\ Start /\ Elsewhere
    \/ Step /\ Elsewhere

SpecFair == InitFaulty /\ [][NextFair]_vars /\ WF_vars(Step /\ Elsewhere)

\* the behaviours in which one email is created and deleted over and over, one
\* call longer than those of Spec
StartRecreate ==
    \/ CreateUser(Alice, <<"A", "l">>)
    \/ \E id \in IDs : DeleteUser(id)

NextRecreate ==
    \/ Len(calls) < MaxCalls + 1 /\ StartRecreate /\ Elsewhere
    \/ \E p \in DOMAIN calls : CreateUserNewUser(p) /\ Elsewhere
    \/ \E p \in DOMAIN calls : CreateUserCreate(p) /\ Elsewhere

SpecRecreate == Init /\ [][NextRecreate]_vars

\* the behaviours in which users are created and then listed page by page, one
\* call longer than those of Spec
StartPages ==
    \/ \E email \in {Alice, Carol} : CreateUser(email, <<"A", "l">>)
    \/ \E limit \in Limits, offset \in Offsets : ListUsers(limit, offset)

NextPages ==
    \/ Len(calls) < MaxCalls + 1 /\ StartPages /\ Elsewhere
    \/ \E p \in DOMAIN calls : CreateUserNewUser(p) /\ Elsewhere
    \/ \E p \in DOMAIN calls : CreateUserCreate(p) /\ Elsewhere

SpecPages == Init /\ [][NextPages]_vars

-----------------------------------------------------------------------------
(* internal/user/domain used on its own, as its tests use it: NewUser, then
   UpdateName on the entity it returned *)

\* a letter, the dot, the at sign, a character of both parts that is no letter
\* and a character of the local part only
EmailAlphabet == {"a", ".", "@", "-", "+"}

ShortEmails == UNION {[1..n -> EmailAlphabet] : n \in 0..MaxEmailLen}

\* an email of n bytes: a local part of "a"s before "@b.co"
Padded(n) == Str(n - 5, "a") \o <<"@", "b", ".", "c", "o">>

\* every class of character the expression names
Mixed == <<"A", "z", "0", "9", ".", "_", "%", "+", "-", "@", "X", "y", "-", "7", ".",
           "Q", "r", "s">>

TestEmails ==
    ShortEmails \cup
    {Alice, Carol, Mixed, Padded(maxEmailLength), Padded(maxEmailLength + 1),
     <<"a", ".", ".", "b", "@", "c", ".", "i", "o">>,
     <<"a", "@", "b", ".", "c", "0">>, <<"a", "@", "b", ".", "c">>,
     <<WideRune, "@", "b", ".", "c", "o">>,
     <<"a", " ", "@", "b", ".", "c", "o">>,
     SubSeq(Padded(maxEmailLength), 2, maxEmailLength) \o <<"o", "m">>,
     <<".">> \o Padded(maxEmailLength)}

TestNames ==
    {<<>>, <<" ">>, Str(3, " "), <<"\t", "\n">>,
     <<"A", "l">>, <<" ", "B", "o", "\t">>, <<"B", "o">>, <<"A", " ", "l">>,
     Str(maxNameLength, "x"), Str(maxNameLength + 1, "x"),
     <<" ">> \o Str(maxNameLength, "x") \o <<"\t">>,
     Str(127, WideRune), Str(128, WideRune)}

\* the entity under test: the one the last call left
Subject == calls[Len(calls)].user

\* NewUser(email, name)
TestNewUser(email, name) ==
    /\ calls = <<>>
    /\ \E t \in Now :
        LET r == NewUser(email, name, uuids + 1, t)
            c == [NewCall("NewUser") EXCEPT !.email = email, !.name = name,
                                            !.user = r.user, !.ret = r.user,
                                            !.err = r.err]
        IN  /\ calls' = Append(calls, c)
            /\ clock' = IF r.err = NoErr THEN t ELSE clock
            /\ uuids' = IF r.err = NoErr THEN uuids + 1 ELSE uuids
    /\ UNCHANGED <<db, budget>>

\* user.UpdateName(name)
TestUser_UpdateName(name) ==
    /\ calls # <<>> /\ calls[1].err = NoErr
    /\ Len(calls) <= MaxRenames
    /\ \E t \in Now :
        LET r == UpdateName(Subject, name, t)
            c == [NewCall("UpdateName") EXCEPT !.name = name, !.old = Subject,
                                               !.user = r.user, !.err = r.err]
        IN  /\ calls' = Append(calls, c)
            /\ clock' = IF r.err = NoErr THEN t ELSE clock
    /\ UNCHANGED <<db, uuids, budget>>

\* what the tests pass to NewUser: every email with one good name, and every
\* name with a good and with a bad email
TestInputs ==
    (TestEmails \X {<<"A", "l">>}) \cup ({Alice, <<"a", "@">>} \X TestNames)

NextDomain ==
    \/ /\ calls = <<>>
       /\ \E input \in TestInputs : TestNewUser(input[1], input[2])
       /\ Elsewhere
    \/ /\ calls # <<>>
       /\ \E name \in TestNames \cup {Subject.Name} : TestUser_UpdateName(name)
       /\ Elsewhere

SpecDomain == Init /\ [][NextDomain]_vars

-----------------------------------------------------------------------------
(* internal/user/adapters/http: the handlers over the service *)

StatusOK == 200
StatusCreated == 201
StatusNoContent == 204
StatusBadRequest == 400
StatusNotFound == 404
StatusConflict == 409
StatusInternalServerError == 500

MaxLimit == 100
DefaultLimit == 10
DefaultOffset == 0

\* mapDomainErrorToHTTP answering every other error with its own message
mapDomainErrorToHTTP_LeaksMessage(err) ==
    IF err = ErrUserNotFound THEN [statusCode |-> StatusNotFound, errorMsg |-> err]
    ELSE IF err = ErrInvalidEmail THEN [statusCode |-> StatusBadRequest, errorMsg |-> err]
    ELSE IF err = ErrInvalidName THEN [statusCode |-> StatusBadRequest, errorMsg |-> err]
    ELSE IF err = ErrDuplicateEmail THEN [statusCode |-> StatusConflict, errorMsg |-> err]
    ELSE [statusCode |-> StatusInternalServerError, errorMsg |-> err]

mapDomainErrorToHTTP(err) ==
    IF err = ErrUserNotFound THEN [statusCode |-> StatusNotFound, errorMsg |-> err]
    ELSE IF err = ErrInvalidEmail THEN [statusCode |-> StatusBadRequest, errorMsg |-> err]
    ELSE IF err = ErrInvalidName THEN [statusCode |-> StatusBadRequest, errorMsg |-> err]
    ELSE IF err = ErrDuplicateEmail THEN [statusCode |-> StatusConflict, errorMsg |-> err]
    ELSE [statusCode |-> StatusInternalServerError,
          errorMsg |-> <<"internal server error">>]

\* the value of a decimal digit
DigitValue(c) ==
    CASE c = "0" -> 0 [] c = "1" -> 1 [] c = "2" -> 2 [] c = "3" -> 3 [] c = "4" -> 4
      [] c = "5" -> 5 [] c = "6" -> 6 [] c = "7" -> 7 [] c = "8" -> 8 [] c = "9" -> 9

RECURSIVE Decimal(_)
Decimal(digits) ==
    IF digits = <<>> THEN 0
    ELSE 10 * Decimal(SubSeq(digits, 1, Len(digits) - 1)) + DigitValue(digits[Len(digits)])

\* the digits of the largest int, and whether a number of as many digits is
\* larger
MaxIntDigits ==
    <<"9", "2", "2", "3", "3", "7", "2", "0", "3", "6", "8", "5", "4", "7", "7", "5",
      "8", "0", "7">>

RECURSIVE Larger(_, _)
Larger(a, b) ==
    IF a = <<>> THEN FALSE
    ELSE IF DigitValue(Head(a)) # DigitValue(Head(b))
    THEN DigitValue(Head(a)) > DigitValue(Head(b))
    ELSE Larger(Tail(a), Tail(b))

RECURSIVE StripZeros(_)
StripZeros(digits) ==
    IF Len(digits) > 1 /\ Head(digits) = "0" THEN StripZeros(Tail(digits)) ELSE digits

ErrSyntax == <<"strconv.Atoi: parsing: invalid syntax">>
ErrRange == <<"strconv.Atoi: parsing: value out of range">>

\* strconv.Atoi: an optional sign, then decimal digits only, within the range
\* of int
Atoi(str) ==
    LET signed == str # <<>> /\ Head(str) \in {"+", "-"}
        digits == IF signed THEN Tail(str) ELSE str
        number == StripZeros(digits)
    IN  IF digits = <<>> \/ \E i \in DOMAIN digits : digits[i] \notin Digit
        THEN [n |-> 0, err |-> ErrSyntax]
        ELSE IF Len(number) > Len(MaxIntDigits)
                \/ (Len(number) = Len(MaxIntDigits) /\ Larger(number, MaxIntDigits))
        THEN [n |-> 0, err |-> ErrRange]
        ELSE [n |-> IF Head(str) = "-" THEN 0 - Decimal(number) ELSE Decimal(number),
              err |-> NoErr]

\* the page the handler asks for: the defaults, replaced by what parses
PageLimit_NoDefault(limitStr) ==
    IF limitStr # <<>> /\ Atoi(limitStr).err = NoErr THEN Atoi(limitStr).n
    ELSE DefaultLimit

PageLimit(limitStr) ==
    IF limitStr # <<>> /\ Atoi(limitStr).err = NoErr /\ Atoi(limitStr).n > 0
    THEN Atoi(limitStr).n
    ELSE DefaultLimit

PageOffset(offsetStr) ==
    IF offsetStr # <<>> /\ Atoi(offsetStr).err = NoErr /\ Atoi(offsetStr).n >= 0
    THEN Atoi(offsetStr).n
    ELSE DefaultOffset

\* what clients send as ?limit= and ?offset= ; the empty string is a missing
\* parameter
LimitQueries ==
    {<<>>, <<"a", "b", "c">>, <<"0">>, <<"-", "1">>, <<"5">>, <<"1", "0", "0">>,
     <<"1", "0", "1">>, <<"+", "7">>, <<"1", "e", "3">>, <<"9">> \o Str(19, "0")}

OffsetQueries == {<<>>, <<"x">>, <<"-", "1">>, <<"0">>, <<"1">>}

\* c.ShouldBindJSON on a well-formed body: a "required" field is not empty;
\* whether the validator's "email" rule lets a non-empty email through is its
\* own affair and is left open
ErrBinding == <<"Key: Error:Field validation failed">>

ShouldBindJSON(email, name) ==
    IF email = <<>> \/ name = <<>> THEN {ErrBinding} ELSE {NoErr, ErrBinding}

\* a request as the handler takes it up: the service call it makes (0: none)
\* and its answer (statusCode 0: none yet)
NewRequest(handler) ==
    [handler |-> handler, limitStr |-> <<>>, offsetStr |-> <<>>, call |-> 0,
     statusCode |-> 0, errorMsg |-> <<>>]

Refused(handler, statusCode, errorMsg) ==
    /\ requests' = Append(requests, [NewRequest(handler) EXCEPT
                        !.statusCode = statusCode, !.errorMsg = errorMsg])
    /\ UNCHANGED <<db, clock, uuids, calls, budget>>

Passed(handler) ==
    requests' = Append(requests, [NewRequest(handler) EXCEPT !.call = Len(calls) + 1])

\* UserHandler.CreateUser up to the call of the service
HandlerCreateUser(email, name) ==
    /\ \E err \in ShouldBindJSON(email, name) :
        IF err # NoErr THEN Refused("CreateUser", StatusBadRequest, err)
        ELSE CreateUser(email, name) /\ Passed("CreateUser")
    /\ UNCHANGED <<checks, runs>>

\* UserHandler.GetUser
HandlerGetUser(id) ==
    /\ GetUser(id) /\ Passed("GetUser")
    /\ UNCHANGED <<checks, runs>>

\* UserHandler.GetUserByEmail
HandlerGetUserByEmail(email) ==
    /\ GetUserByEmail(email) /\ Passed("GetUserByEmail")
    /\ UNCHANGED <<checks, runs>>

\* UserHandler.UpdateUser up to the call of the service
HandlerUpdateUser(id, name) ==
    /\ IF name = <<>> THEN Refused("UpdateUser", StatusBadRequest, ErrBinding)
       ELSE UpdateUser(id, name) /\ Passed("UpdateUser")
    /\ UNCHANGED <<checks, runs>>

\* UserHandler.DeleteUser
HandlerDeleteUser(id) ==
    /\ DeleteUser(id) /\ Passed("DeleteUser")
    /\ UNCHANGED <<checks, runs>>

\* UserHandler.ListUsers up to the call of the service
HandlerListUsers(limitStr, offsetStr) ==
    /\ LET limit == PageLimit(limitStr)
           offset == PageOffset(offsetStr)
       IN  IF limit > MaxLimit
           THEN requests' = Append(requests, [NewRequest("ListUsers") EXCEPT
                                !.limitStr = limitStr, !.offsetStr = offsetStr,
                                !.statusCode = StatusBadRequest,
                                !.errorMsg = <<"limit cannot exceed 100">>])
                /\ UNCHANGED <<db, clock, uuids, calls, budget>>
           ELSE /\ ListUsers(limit, offset)
                /\ requests' = Append(requests, [NewRequest("ListUsers") EXCEPT
                                !.limitStr = limitStr, !.offsetStr = offsetStr,
                                !.call = Len(calls) + 1])
    /\ UNCHANGED <<checks, runs>>

\* the status a handler answers with when the service returned no error
Success(handler) ==
    CASE handler = "CreateUser" -> StatusCreated
      [] handler = "DeleteUser" -> StatusNoContent
      [] OTHER -> StatusOK

\* a handler, its service call having returned, answers
Respond(r) ==
    /\ requests[r].statusCode = 0
    /\ calls[requests[r].call].pc = "done"
    /\ LET err == calls[requests[r].call].err
       IN  requests' = IF err # NoErr
                       THEN [requests EXCEPT
                               ![r].statusCode = mapDomainErrorToHTTP(err).statusCode,
                               ![r].errorMsg = mapDomainErrorToHTTP(err).errorMsg]
                       ELSE [requests EXCEPT
                               ![r].statusCode = Success(requests[r].handler)]
    /\ UNCHANGED <<db, clock, uuids, calls, budget, checks, runs>>

\* a request comes in
Handle ==
    \/ \E email \in Emails \cup {<<>>}, name \in CreateNames : HandlerCreateUser(email, name)
    \/ \E id \in IDs : HandlerGetUser(id)
    \/ \E email \in Emails : HandlerGetUserByEmail(email)
    \/ \E id \in IDs, name \in UpdateNames : HandlerUpdateUser(id, name)
    \/ \E id \in IDs : HandlerDeleteUser(id)
    \/ \E limitStr \in LimitQueries, offsetStr \in OffsetQueries :
        HandlerListUsers(limitStr, offsetStr)

NextHTTP ==
    \/ Len(requests) < MaxRequests /\ Handle
    \/ Step /\ Elsewhere
    \/ \E r \in DOMAIN requests : Respond(r)

SpecHTTP == InitFaulty /\ [][NextHTTP]_vars

-----------------------------------------------------------------------------
(* internal/infrastructure/health: Checker *)

StatusHealthy == "healthy"
StatusUnhealthy == "unhealthy"

\* the names checks are registered under
CheckNames == {"database", "cache"}

\* the CheckFuncs of the tests: one that returns nil, one that returns an
\* error, and one that waits for ctx.Done() and returns ctx.Err() (the 10
\* seconds it would wait otherwise are longer than the deadline)
CheckFuncs == {"nil", "error", "slow"}

ServiceUnavailable == <<"service unavailable">>
DeadlineExceeded == <<"context deadline exceeded">>

\* a call of a method of the Checker: `registered` is c.checks as it was when
\* a Check took the read lock, `ran` the checks it has called with what each
\* returned, in order, `expired` whether the deadline of its context has
\* passed, `waited` whether an AddCheck had to wait for the lock
NewRun(op) ==
    [op |-> op, pc |-> "done", name |-> "", check |-> "", registered |-> <<>>,
     ran |-> <<>>, expired |-> FALSE, waited |-> FALSE,
     result |-> [Status |-> StatusHealthy, Checks |-> <<>>]]

\* the Check calls that hold the read lock
Readers == {r \in DOMAIN runs : runs[r].op = "Check" /\ runs[r].pc = "range"}

\* the AddCheck calls that wait in c.mu.Lock() for the readers to leave; new
\* readers wait behind them
Writers == {w \in DOMAIN runs : runs[w].op = "AddCheck" /\ runs[w].pc = "Locking"}

\* c.checks[name] = check
Register(name, check) ==
    [n \in DOMAIN checks \cup {name} |-> IF n = name THEN check ELSE checks[n]]

AppIdle == UNCHANGED <<db, clock, uuids, calls, budget, requests>>

\* AddCheck assigning without the lock
AddCheck_NoLock(name, check) ==
    /\ runs' = Append(runs, [NewRun("AddCheck") EXCEPT !.name = name, !.check = check])
    /\ checks' = Register(name, check)
    /\ AppIdle

\* AddCheck up to c.mu.Lock(): it takes the lock, assigns and unlocks when no
\* Check holds the read lock, and waits otherwise
AddCheck(name, check) ==
    /\ Writers = {}
    /\ IF Readers = {}
       THEN /\ runs' = Append(runs, [NewRun("AddCheck") EXCEPT
                                       !.name = name, !.check = check])
            /\ checks' = Register(name, check)
       ELSE /\ runs' = Append(runs, [NewRun("AddCheck") EXCEPT
                                       !.name = name, !.check = check,
                                       !.pc = "Locking", !.waited = TRUE])
            /\ UNCHANGED checks
    /\ AppIdle

\* AddCheck: the readers have left; assign and unlock
AddCheckLocked(w) ==
    /\ w \in Writers
    /\ Readers = {}
    /\ checks' = Register(runs[w].name, runs[w].check)
    /\ runs' = [runs EXCEPT ![w].pc = "done"]
    /\ AppIdle

\* Check up to the loop: the read lock, the context with its deadline, the
\* empty result
Check ==
    /\ Writers = {}
    /\ runs' = Append(runs, [NewRun("Check") EXCEPT !.pc = "range",
                                                    !.registered = checks])
    /\ UNCHANGED checks
    /\ AppIdle

\* the deadline of the context of a Check passes
Deadline(r) ==
    /\ r \in Readers
    /\ ~runs[r].expired
    /\ runs' = [runs EXCEPT ![r].expired = TRUE]
    /\ UNCHANGED checks
    /\ AppIdle

\* the slow check never returning
Returns_IgnoresContext(check, expired) ==
    CASE check = "nil" -> {NoErr}
      [] check = "error" -> {ServiceUnavailable}
      [] check = "slow" -> {}

\* check(ctx): what the CheckFunc returns; the slow one returns only once the
\* context is done
Returns(check, expired) ==
    CASE check = "nil" -> {NoErr}
      [] check = "error" -> {ServiceUnavailable}
      [] check = "slow" -> IF expired THEN {DeadlineExceeded} ELSE {}

\* a round of the loop that leaves the overall status alone
Recorded_KeepsStatus(result, name, err) ==
    LET checkResult == IF err # NoErr
                       THEN [Status |-> StatusUnhealthy, Error |-> err]
                       ELSE [Status |-> StatusHealthy, Error |-> <<>>]
    IN  [Status |-> result.Status,
         Checks |-> [n \in DOMAIN result.Checks \cup {name} |->
                        IF n = name THEN checkResult ELSE result.Checks[n]]]

\* the result after one round of the loop
Recorded(result, name, err) ==
    LET checkResult == IF err # NoErr
                       THEN [Status |-> StatusUnhealthy, Error |-> err]
                       ELSE [Status |-> StatusHealthy, Error |-> <<>>]
    IN  [Status |-> IF err # NoErr THEN StatusUnhealthy ELSE result.Status,
         Checks |-> [n \in DOMAIN result.Checks \cup {name} |->
                        IF n = name THEN checkResult ELSE result.Checks[n]]]

\* Check: one round of the loop over c.checks, in the order the map gives
CheckRange(r, name) ==
    /\ r \in Readers
    /\ name \in DOMAIN checks /\ name \notin DOMAIN runs[r].result.Checks
    /\ \E err \in Returns(checks[name], runs[r].expired) :
        runs' = [runs EXCEPT ![r].result = Recorded(runs[r].result, name, err),
                             ![r].ran = Append(runs[r].ran,
                                              [name |-> name, err |-> err])]
    /\ UNCHANGED checks
    /\ AppIdle

\* Check: the loop is over; cancel, unlock and return
CheckReturn(r) ==
    /\ r \in Readers
    /\ DOMAIN checks \subseteq DOMAIN runs[r].result.Checks
    /\ runs' = [runs EXCEPT ![r].pc = "done"]
    /\ UNCHANGED checks
    /\ AppIdle

\* Liveness running the registered checks
Liveness_RunsChecks ==
    /\ runs' = Append(runs, [NewRun("Liveness") EXCEPT
                    !.result = [Status |-> IF \E n \in DOMAIN checks : checks[n] = "error"
                                           THEN StatusUnhealthy ELSE StatusHealthy,
                                Checks |-> [n \in {"liveness"} |->
                                              [Status |-> StatusHealthy, Error |-> <<>>]]]])
    /\ UNCHANGED checks
    /\ AppIdle

\* Liveness
Liveness ==
    /\ runs' = Append(runs, [NewRun("Liveness") EXCEPT
                    !.result = [Status |-> StatusHealthy,
                                Checks |-> [n \in {"liveness"} |->
                                              [Status |-> StatusHealthy, Error |-> <<>>]]]])
    /\ UNCHANGED checks
    /\ AppIdle

\* a method of the Checker is called
StartHealth ==
    \/ \E name \in CheckNames, check \in CheckFuncs : AddCheck(name, check)
    \/ Check
    \/ Liveness

\* a Check under way goes on
StepCheck ==
    \/ \E r \in DOMAIN runs, name \in CheckNames : CheckRange(r, name)
    \/ \E r \in DOMAIN runs : CheckReturn(r)

NextHealth ==
    \/ Len(runs) < MaxRuns /\ StartHealth
    \/ \E w \in DOMAIN runs : AddCheckLocked(w)
    \/ \E r \in DOMAIN runs : Deadline(r)
    \/ StepCheck

SpecHealth == Init /\ [][NextHealth]_vars

\* the same, every Check and AddCheck under way going on and every deadline
\* passing in the end
SpecHealthFair ==
    /\ SpecHealth
    /\ WF_vars(StepCheck)
    /\ WF_vars(\E r \in DOMAIN runs : Deadline(r))
    /\ WF_vars(\E w \in DOMAIN runs : AddCheckLocked(w))

-----------------------------------------------------------------------------
(* Reading a behaviour *)

Done(p) == calls[p].pc = "done"

\* the store calls a call has made, by name
Made(p) == [i \in DOMAIN calls[p].log |-> calls[p].log[i].fn]

\* no store call of the call failed in the database itself
Served(p) == \A i \in DOMAIN calls[p].log : calls[p].log[i].err # ErrContext

\* the call q started after the call p had returned
After(p, q) == p \in calls[q].prior

ValidEmails == {e \in Emails : isValidEmail(e)}

LiveRows == {db[i] : i \in {k \in DOMAIN db : db[k].DeletedAt = 0}}

AllRows == {db[i] : i \in DOMAIN db}

\* two different finished CreateUser calls for one email that both went on to
\* repo.Create: both lookups had answered NotFound
Raced(p, q) ==
    /\ p # q
    /\ calls[p].op = "CreateUser" /\ calls[q].op = "CreateUser"
    /\ calls[p].email = calls[q].email
    /\ Done(p) /\ Done(q)
    /\ Made(p) = <<"GetByEmail", "Create">> /\ Made(q) = <<"GetByEmail", "Create">>
    /\ ~After(p, q) /\ ~After(q, p)

-----------------------------------------------------------------------------
(* C1: in every reachable state, whatever the interleaving of CreateUser,
   UpdateUser and DeleteUser calls, no two live (non-deleted) rows of the store
   have the same email. *)
C1_UniqueLiveEmail ==
    \A i, j \in DOMAIN db :
        (i # j /\ db[i].DeletedAt = 0 /\ db[j].DeletedAt = 0) => db[i].Email # db[j].Email

\* two CreateUser calls for one email have raced past the lookup and returned,
\* and the email is stored
C1_Witness ==
    \E p, q \in DOMAIN calls :
        Raced(p, q) /\ \E m \in LiveRows : m.Email = calls[p].email

-----------------------------------------------------------------------------
(* C2: when two CreateUser calls for the same valid email interleave so that
   both lookups return NotFound before either write, exactly one of them
   succeeds, the other returns DuplicateEmail, and exactly one user with that
   email is stored.  Every other call had returned before the two started.
   (Stated as claimed; the code violates it when the email is held by a
   soft-deleted row: both writes fail, see C4.) *)
Alone(p, q) ==
    \A r \in DOMAIN calls \ {p, q} : r \in calls[p].prior /\ r \in calls[q].prior

\* C2: of two CreateUser calls racing on one email that no user has, with
\* every other call finished before both began, exactly one succeeds and the
\* other returns DuplicateEmail.
C2_RaceHasOneWinner ==
    \A p, q \in DOMAIN calls :
        (Raced(p, q) /\ Alone(p, q) /\ Served(p) /\ Served(q)) =>
            /\ \/ calls[p].err = NoErr /\ calls[q].err = ErrDuplicateEmail
               \/ calls[q].err = NoErr /\ calls[p].err = ErrDuplicateEmail
            /\ Cardinality({m \in LiveRows : m.Email = calls[p].email}) = 1

-----------------------------------------------------------------------------
(* C3: CreateUser called twice in sequence with the same valid email (the user
   not deleted in between) yields success, then DuplicateEmail; and whenever
   the lookup finds a live user, CreateUser returns DuplicateEmail and no user
   without calling repo.Create, and the step leaves the store unchanged. *)
DeletedBefore(id, q) ==
    \E r \in calls[q].prior :
        calls[r].op = "DeleteUser" /\ calls[r].id = id /\ calls[r].err = NoErr

C3_Sequential ==
    \A p, q \in DOMAIN calls :
        (/\ calls[p].op = "CreateUser" /\ calls[q].op = "CreateUser"
         /\ calls[p].email = calls[q].email
         /\ Done(p) /\ calls[p].err = NoErr
         /\ After(p, q) /\ Done(q)
         /\ ~DeletedBefore(calls[p].ret.ID, q))
        => calls[q].err = ErrDuplicateEmail

C3_FoundMeansDuplicate ==
    \A q \in DOMAIN calls :
        (calls[q].op = "CreateUser" /\ calls[q].log[1].err = NoErr) =>
            /\ Done(q)
            /\ calls[q].err = ErrDuplicateEmail
            /\ calls[q].ret = NilUser
            /\ Made(q) = <<"GetByEmail">>

\* the step in which a CreateUser lookup finds a user does not touch the store
C3_LookupStep ==
    (/\ Len(calls') = Len(calls) + 1
     /\ calls'[Len(calls')].op = "CreateUser"
     /\ calls'[Len(calls')].log[1].err = NoErr)
    => db' = db

\* C3: CreateUser for the email of a live user returns DuplicateEmail and
\* leaves the table as it was.
C3_DuplicateEmail ==
    [](C3_Sequential /\ C3_FoundMeansDuplicate) /\ [][C3_LookupStep]_vars

\* a second CreateUser for an email has returned after a first one succeeded
C3_Witness ==
    \E p, q \in DOMAIN calls :
        /\ calls[p].op = "CreateUser" /\ calls[q].op = "CreateUser"
        /\ calls[p].email = calls[q].email
        /\ Done(p) /\ calls[p].err = NoErr
        /\ After(p, q) /\ Done(q)
        /\ calls[q].log[1].err = NoErr
        /\ calls[q].err = ErrDuplicateEmail

-----------------------------------------------------------------------------
(* C4: after DeleteUser(id) succeeds for a user with email e, a later
   CreateUser(e, validName) succeeds: a soft-deleted row is excluded from the
   uniqueness checks.  (Stated as claimed; the code violates it: the unique
   index on users.email covers soft-deleted rows.) *)
EmailOf(id) == (CHOOSE m \in AllRows : m.ID = id).Email

NameAccepted(name) ==
    LET trimmed == TrimSpace(name) IN trimmed # <<>> /\ len(trimmed) <= maxNameLength

\* C4: CreateUser with a valid name for the email of a soft-deleted user,
\* which no live user has, succeeds.
C4_RecreateAfterDelete ==
    \A d, q \in DOMAIN calls :
        (/\ calls[d].op = "DeleteUser" /\ calls[d].err = NoErr
         /\ calls[q].op = "CreateUser" /\ Done(q) /\ After(d, q)
         /\ calls[q].email = EmailOf(calls[d].id)
         /\ NameAccepted(calls[q].name)
         /\ \A r \in DOMAIN calls \ {q} :
                (calls[r].op = "CreateUser" /\ calls[r].email = calls[q].email)
                    => (Done(r) /\ After(r, d)))
        => calls[q].err = NoErr

-----------------------------------------------------------------------------
(* C5: after DeleteUser(id) succeeds, every later GetUser(id) returns NotFound,
   every later GetUserByEmail(that user's email) returns NotFound as long as no
   new user was created with that email, and no later ListUsers result holds
   that user. *)
Deleted(d) == calls[d].op = "DeleteUser" /\ calls[d].err = NoErr

\* a CreateUser for the email succeeded and had not returned when d ran
CreatedSince(email, d) ==
    \E s \in DOMAIN calls :
        /\ calls[s].op = "CreateUser" /\ calls[s].email = email
        /\ Done(s) /\ calls[s].err = NoErr /\ ~After(s, d)

\* C5: once a user is soft-deleted its row stays deleted and no later read
\* returns it.
C5_DeletedStaysHidden ==
    \A d, q \in DOMAIN calls :
        (Deleted(d) /\ After(d, q) /\ Done(q)) =>
            /\ (calls[q].op = "GetUser" /\ calls[q].id = calls[d].id)
                   => (calls[q].err = ErrUserNotFound /\ calls[q].ret = NilUser)
            /\ (/\ calls[q].op = "GetUserByEmail"
                /\ calls[q].email = EmailOf(calls[d].id)
                /\ ~CreatedSince(calls[q].email, d))
                   => (calls[q].err = ErrUserNotFound /\ calls[q].ret = NilUser)
            /\ calls[q].op = "ListUsers"
                   => \A i \in DOMAIN calls[q].users : calls[q].users[i].ID # calls[d].id

\* a user was created and deleted and then looked up by its id
C5_Witness ==
    \E d, q \in DOMAIN calls :
        /\ Deleted(d) /\ After(d, q)
        /\ calls[q].op = "GetUser" /\ calls[q].id = calls[d].id
        /\ calls[q].err = ErrUserNotFound

-----------------------------------------------------------------------------
(* C6: UpdateUser(id, name) for an id with no live user returns NotFound and no
   user, makes no store call after the lookup, and leaves the store unchanged. *)
HasLive(id) == \E m \in LiveRows : m.ID = id

\* the call that the step starts, if it starts one
Started == calls'[Len(calls')]

Starts(op) == Len(calls') = Len(calls) + 1 /\ Started.op = op

C6_UnknownStep ==
    (Starts("UpdateUser") /\ ~HasLive(Started.id)) =>
        /\ Started.pc = "done"
        /\ Started.err = ErrUserNotFound
        /\ Started.ret = NilUser
        /\ [i \in DOMAIN Started.log |-> Started.log[i].fn] = <<"GetByID">>
        /\ db' = db

\* a call that has returned makes no further store call
C6_ReturnedIsFinal ==
    \A p \in DOMAIN calls : Done(p) => calls'[p] = calls[p]

\* C6: UpdateUser for an id with no live row returns NotFound and changes
\* nothing; a returned call never changes afterwards.
C6_UpdateUnknown == [][C6_UnknownStep /\ C6_ReturnedIsFinal]_vars

\* UpdateUser for the id of a soft-deleted user has returned NotFound
C6_Witness ==
    \E q \in DOMAIN calls :
        /\ calls[q].op = "UpdateUser" /\ calls[q].err = ErrUserNotFound
        /\ \E m \in AllRows : m.ID = calls[q].id /\ m.DeletedAt # 0

-----------------------------------------------------------------------------
(* C7: UpdateUser(id, name) for a live user and a name that is empty, all
   whitespace or longer than 255 after trimming returns InvalidName and no
   user without calling repo.Update; the step leaves the store unchanged. *)
NameRejected(name) ==
    \/ name = <<>>
    \/ \A i \in DOMAIN name : IsSpace(name[i])
    \/ len(TrimSpace(name)) > 255

C7_InvalidNameReturned ==
    \A q \in DOMAIN calls :
        (/\ calls[q].op = "UpdateUser" /\ calls[q].log[1].err = NoErr
         /\ NameRejected(calls[q].name) /\ calls[q].pc # "UpdateName")
        => /\ Done(q)
           /\ calls[q].err = ErrInvalidName
           /\ calls[q].ret = NilUser
           /\ Made(q) = <<"GetByID">>

C7_RenameStep ==
    \A q \in DOMAIN calls :
        (/\ calls[q].op = "UpdateUser" /\ calls[q].pc = "UpdateName"
         /\ calls'[q].pc # "UpdateName" /\ NameRejected(calls[q].name))
        => db' = db

\* C7: UpdateUser with a name that is empty after trimming or longer than
\* maxNameLength returns InvalidName and changes nothing.
C7_UpdateInvalidName == []C7_InvalidNameReturned /\ [][C7_RenameStep]_vars

\* UpdateUser has rejected a name of 256 characters for a live user
C7_Witness ==
    \E q \in DOMAIN calls :
        /\ calls[q].op = "UpdateUser" /\ Done(q)
        /\ calls[q].log[1].err = NoErr
        /\ Len(calls[q].name) = 256
        /\ calls[q].err = ErrInvalidName

-----------------------------------------------------------------------------
(* C8: after UpdateUser(id, name) succeeds with no concurrent operation on that
   user, GetUser(id) returns a user whose name is the trimmed new name and
   whose updatedAt is not earlier than before the call, and the user that
   UpdateUser returned equals what was persisted.  (Stated as claimed; the
   code violates the last part: the store stamps updated_at itself when it
   writes the row.) *)
C8_UpdateThenGet ==
    \A u, g \in DOMAIN calls :
        (/\ calls[u].op = "UpdateUser" /\ Done(u) /\ calls[u].err = NoErr
         /\ calls[g].op = "GetUser" /\ calls[g].id = calls[u].id
         /\ After(u, g) /\ calls[g].err = NoErr
         /\ \A r \in DOMAIN calls \ {u, g} : After(r, u))
        => /\ calls[g].ret.Name = TrimSpace(calls[u].name)
           /\ calls[g].ret.UpdatedAt >= calls[u].old.UpdatedAt
           /\ calls[g].ret = calls[u].ret

-----------------------------------------------------------------------------
(* C9: User.UpdateName never changes ID, Email or CreatedAt; when it succeeds,
   Name is the trimmed input and UpdatedAt is not earlier than it was; when it
   fails, no field of the entity changes.  `old` is the entity before the
   call of UpdateName and `user` the entity after it. *)
C9_RenameFrame ==
    \A q \in DOMAIN calls :
        (/\ calls[q].op = "UpdateUser" /\ calls[q].log[1].err = NoErr
         /\ calls[q].pc # "UpdateName")
        => LET before == calls[q].old
               after == calls[q].user
               failed == Done(q) /\ Made(q) = <<"GetByID">>
           IN  /\ after.ID = before.ID
               /\ after.Email = before.Email
               /\ after.CreatedAt = before.CreatedAt
               /\ ~failed =>
                      /\ after.Name = TrimSpace(calls[q].name)
                      /\ after.UpdatedAt >= before.UpdatedAt
               /\ failed =>
                      /\ calls[q].err = ErrInvalidName
                      /\ after = before

\* UpdateName has succeeded on one entity, moving its UpdatedAt on, and has
\* failed on another
C9_Witness ==
    \E p, q \in DOMAIN calls :
        /\ calls[p].op = "UpdateUser" /\ calls[p].pc = "Update"
        /\ calls[p].user.UpdatedAt > calls[p].old.UpdatedAt
        /\ calls[p].user.Name # calls[p].old.Name
        /\ calls[q].op = "UpdateUser" /\ calls[q].err = ErrInvalidName

-----------------------------------------------------------------------------
(* C10: for every user, held by a use case, returned by one or stored,
   UpdatedAt >= CreatedAt in every reachable state, the clock never going
   backwards. *)
Entities ==
    UNION {{calls[p].user, calls[p].old, calls[p].ret}
             \cup {calls[p].users[i] : i \in DOMAIN calls[p].users} : p \in DOMAIN calls}

C10_UpdatedNotBeforeCreated ==
    /\ \A m \in AllRows : m.UpdatedAt >= m.CreatedAt
    /\ \A u \in Entities : u.UpdatedAt >= u.CreatedAt

\* a stored user has been renamed after the clock moved on
C10_Witness ==
    \E m \in AllRows : m.UpdatedAt > m.CreatedAt /\ m.DeletedAt = 0

-----------------------------------------------------------------------------
(* C11: across any interleaving of the use cases, no step removes a row of the
   table or changes the id, the email or the created_at of a row, although
   repo.Update writes every column of the entity back. *)
C11_IdentityStep ==
    /\ Len(db') >= Len(db)
    /\ \A i \in DOMAIN db :
        /\ db'[i].ID = db[i].ID
        /\ db'[i].Email = db[i].Email
        /\ db'[i].CreatedAt = db[i].CreatedAt

\* C11: the id, email and createdAt of a stored user never change after its
\* creation.
C11_IdentityKept == [][C11_IdentityStep]_vars

\* UpdateUser has written a renamed entity back after the clock moved on
C11_Witness ==
    \E p \in DOMAIN calls :
        /\ calls[p].op = "UpdateUser" /\ Done(p) /\ calls[p].err = NoErr
        /\ calls[p].ret.Name # calls[p].old.Name
        /\ \E m \in AllRows :
            m.ID = calls[p].id /\ m.Name = calls[p].ret.Name /\ m.UpdatedAt > m.CreatedAt

-----------------------------------------------------------------------------
(* C12: ListUsers(limit, offset) returns, without an error, live users only,
   each once, newest created first, skipping the first offset of them and
   returning at most limit: min(limit, max(n - offset, 0)) users of the n live
   ones, none when offset >= n.  The i-th user returned has at most
   offset + i - 1 live users created after it and at least offset + i live
   users created no earlier, which names it when the times are distinct. *)
Min(a, b) == IF a <= b THEN a ELSE b

Max(a, b) == IF a >= b THEN a ELSE b

NewerThan(u) == Cardinality({m \in LiveRows : m.CreatedAt > u.CreatedAt})

NotOlderThan(u) == Cardinality({m \in LiveRows : m.CreatedAt >= u.CreatedAt})

C12_ListStep ==
    Starts("ListUsers") =>
        LET users == Started.users
            n == Cardinality(LiveRows)
        IN  /\ Started.pc = "done" /\ Started.err = NoErr
            /\ db' = db
            /\ Len(users) = Min(Started.limit, Max(n - Started.offset, 0))
            /\ Started.offset >= n => users = <<>>
            /\ \A i \in DOMAIN users : \E m \in LiveRows : users[i] = ToDomainUser(m)
            /\ \A i, j \in DOMAIN users : i # j => users[i].ID # users[j].ID
            /\ \A i, j \in DOMAIN users : i < j => users[i].CreatedAt >= users[j].CreatedAt
            /\ \A i \in DOMAIN users :
                /\ NewerThan(users[i]) <= Started.offset + i - 1
                /\ NotOlderThan(users[i]) >= Started.offset + i

\* C12: ListUsers returns the live users newest first, skips offset of them
\* and returns at most limit.
C12_ListPage == [][C12_ListStep]_vars

\* ListUsers(1, 1) has returned the older of two live users created at
\* different times
C12_Witness ==
    \E q \in DOMAIN calls :
        /\ calls[q].op = "ListUsers" /\ calls[q].limit = 1 /\ calls[q].offset = 1
        /\ Len(calls[q].users) = 1
        /\ Cardinality(LiveRows) = 2
        /\ \E m \in LiveRows : m.CreatedAt > calls[q].users[1].CreatedAt

-----------------------------------------------------------------------------
(* C13: a CreateUser whose lookup answered NotFound and whose email or name is
   invalid returns no user after the lookup alone, never calling repo.Create;
   the error is InvalidEmail whenever the email is invalid, whatever the name,
   and InvalidName when only the name is; the step of NewUser leaves the
   table unchanged. *)
C13_Invalid(q) == ~isValidEmail(calls[q].email) \/ ~NameAccepted(calls[q].name)

C13_InvalidReturned ==
    \A q \in DOMAIN calls :
        (/\ calls[q].op = "CreateUser" /\ calls[q].log[1].err = ErrUserNotFound
         /\ calls[q].pc # "NewUser" /\ C13_Invalid(q))
        => /\ Done(q)
           /\ calls[q].ret = NilUser
           /\ calls[q].user = NilUser
           /\ Made(q) = <<"GetByEmail">>
           /\ calls[q].err = IF ~isValidEmail(calls[q].email) THEN ErrInvalidEmail
                             ELSE ErrInvalidName

C13_ConstructStep ==
    \A q \in DOMAIN calls :
        (/\ calls[q].op = "CreateUser" /\ calls[q].pc = "NewUser"
         /\ calls'[q].pc # "NewUser" /\ C13_Invalid(q))
        => db' = db

\* C13: CreateUser with an unused but invalid email, or an invalid name,
\* returns InvalidEmail first, else InvalidName, and writes nothing.
C13_CreateInvalid == []C13_InvalidReturned /\ [][C13_ConstructStep]_vars

\* CreateUser has rejected an invalid email given with an invalid name, and
\* another call an invalid name given with a valid email
C13_Witness ==
    \E p, q \in DOMAIN calls :
        /\ calls[p].op = "CreateUser" /\ Done(p)
        /\ ~isValidEmail(calls[p].email) /\ ~NameAccepted(calls[p].name)
        /\ calls[p].err = ErrInvalidEmail
        /\ calls[q].op = "CreateUser" /\ Done(q)
        /\ isValidEmail(calls[q].email) /\ calls[q].err = ErrInvalidName

-----------------------------------------------------------------------------
(* C14: whenever a store call of a use case fails, the use case has returned
   with that same error and made no further store call, and returns no user;
   the one exception is the NotFound of CreateUser's lookup, after which it
   goes on.  So a CreateUser whose lookup failed otherwise has constructed
   and written nothing, and an UpdateUser whose fetch failed has not called
   repo.Update. *)
C14_GoesOn(q, i) ==
    calls[q].op = "CreateUser" /\ i = 1 /\ calls[q].log[1].err = ErrUserNotFound

\* C14: a failed store call ends the use case with the store's error,
\* unchanged, and no further store call.
C14_StoreErrorReturned ==
    \A q \in DOMAIN calls : \A i \in DOMAIN calls[q].log :
        (calls[q].log[i].err # NoErr /\ ~C14_GoesOn(q, i)) =>
            /\ Done(q)
            /\ i = Len(calls[q].log)
            /\ calls[q].err = calls[q].log[i].err
            /\ calls[q].ret = NilUser /\ calls[q].users = <<>>
            /\ (calls[q].op = "CreateUser" /\ i = 1) => calls[q].user = NilUser
            /\ (calls[q].op = "UpdateUser" /\ i = 1) => Made(q) = <<"GetByID">>

\* the database has failed the lookup of a CreateUser, which returned the
\* database's error
C14_Witness ==
    \E q \in DOMAIN calls :
        /\ calls[q].op = "CreateUser" /\ Done(q)
        /\ calls[q].log[1].err = ErrContext
        /\ calls[q].err = ErrContext

-----------------------------------------------------------------------------
(* C15: after CreateUser(email, name) has returned user u, a GetUser(u.ID) or
   GetUserByEmail(email) that runs before any UpdateUser or DeleteUser of u
   has started returns, without an error, a user with u's id, the email as
   given and the trimmed name; and two such reads return the same user. *)
Untouched(id, g) ==
    \A r \in DOMAIN calls :
        (calls[r].op \in {"UpdateUser", "DeleteUser"} /\ calls[r].id = id) => After(g, r)

ReadsBack(c, g) ==
    /\ calls[c].op = "CreateUser" /\ Done(c) /\ calls[c].err = NoErr
    /\ After(c, g) /\ Served(g)
    /\ \/ calls[g].op = "GetUser" /\ calls[g].id = calls[c].ret.ID
       \/ calls[g].op = "GetUserByEmail" /\ calls[g].email = calls[c].email
    /\ Untouched(calls[c].ret.ID, g)

\* C15: a user just created is read back by id and by email with its id,
\* its email and its trimmed name.
C15_CreateThenGet ==
    \A c, g, h \in DOMAIN calls :
        /\ ReadsBack(c, g) =>
            /\ calls[g].err = NoErr
            /\ calls[g].ret.ID = calls[c].ret.ID
            /\ calls[g].ret.Email = calls[c].email
            /\ calls[g].ret.Name = TrimSpace(calls[c].name)
        /\ (ReadsBack(c, g) /\ ReadsBack(c, h)) => calls[g].ret = calls[h].ret

\* a user created with a padded name has been read back by id and by email
C15_Witness ==
    \E c, g, h \in DOMAIN calls :
        /\ ReadsBack(c, g) /\ calls[g].op = "GetUser"
        /\ ReadsBack(c, h) /\ calls[h].op = "GetUserByEmail"
        /\ calls[c].name # TrimSpace(calls[c].name)

-----------------------------------------------------------------------------
(* C16: DeleteUser(id) for an id with no live row, never created or already
   deleted, returns NotFound and the step leaves the table unchanged; so of
   two DeleteUser calls for one id, one after the other, the second returns
   NotFound when the first succeeded. *)
C16_UnknownStep ==
    (Starts("DeleteUser") /\ ~HasLive(Started.id)) =>
        /\ Started.pc = "done"
        /\ Started.err = ErrUserNotFound
        /\ db' = db

C16_Twice ==
    \A p, q \in DOMAIN calls :
        (/\ calls[p].op = "DeleteUser" /\ calls[q].op = "DeleteUser"
         /\ calls[p].id = calls[q].id
         /\ After(p, q) /\ calls[p].err = NoErr)
        => calls[q].err = ErrUserNotFound

\* C16: DeleteUser for an id with no live user returns NotFound and changes
\* nothing; deleting twice gives success, then NotFound.
C16_DeleteUnknown == []C16_Twice /\ [][C16_UnknownStep]_vars

\* a user has been deleted twice: success, then NotFound
C16_Witness ==
    \E p, q \in DOMAIN calls :
        /\ calls[p].op = "DeleteUser" /\ calls[q].op = "DeleteUser"
        /\ calls[p].id = calls[q].id /\ After(p, q)
        /\ calls[p].err = NoErr /\ calls[q].err = ErrUserNotFound

-----------------------------------------------------------------------------
(* C17: NewUser returns InvalidEmail and no user for every email that has two
   consecutive "." anywhere, or more than 254 characters, or not exactly one
   "@", or a local or domain part that starts or ends with ".". *)
AtSigns(s) == {i \in DOMAIN s : s[i] = "@"}

\* the parts of a string with exactly one "@"
LocalOf(s) == SubSeq(s, 1, (CHOOSE i \in AtSigns(s) : TRUE) - 1)

DomainOf(s) == SubSeq(s, (CHOOSE i \in AtSigns(s) : TRUE) + 1, Len(s))

DotAtAnEnd(part) == part # <<>> /\ (part[1] = "." \/ part[Len(part)] = ".")

TwoDots(s) == \E i \in 1..(Len(s) - 1) : s[i] = "." /\ s[i + 1] = "."

MustReject(s) ==
    \/ TwoDots(s)
    \/ Len(s) > 254
    \/ Cardinality(AtSigns(s)) # 1
    \/ Cardinality(AtSigns(s)) = 1 /\ (DotAtAnEnd(LocalOf(s)) \/ DotAtAnEnd(DomainOf(s)))

C17_EmailRejected ==
    \A p \in DOMAIN calls :
        (calls[p].op = "NewUser" /\ MustReject(calls[p].email)) =>
            calls[p].err = ErrInvalidEmail /\ calls[p].ret = NilUser

\* NewUser has rejected an email that the regular expression matches: one with
\* two consecutive dots, and one whose domain starts with a dot
C17_Witness ==
    \E p \in DOMAIN calls :
        /\ calls[p].op = "NewUser" /\ calls[p].err = ErrInvalidEmail
        /\ emailRegex(calls[p].email)
        /\ Len(calls[p].email) <= 254
        /\ TwoDots(calls[p].email) \/ DotAtAnEnd(DomainOf(calls[p].email))

-----------------------------------------------------------------------------
(* C18: NewUser accepts, given a valid name, every email of at most 254
   characters of the form local@domain where local is a non-empty string over
   letters, digits and . _ % + -, domain is over letters, digits and . -,
   neither part starts or ends with ".", no two "." are consecutive and the
   domain ends in "." followed by at least 2 letters. *)
Alphanumerics == Lower \cup Upper \cup Digit

Over(part, chars) == \A i \in DOMAIN part : part[i] \in chars

\* the part ends in "." followed by n letters, n >= 2
EndsInLabel(part) ==
    \E n \in 2..(Len(part) - 1) :
        /\ part[Len(part) - n] = "."
        /\ \A i \in (Len(part) - n + 1)..Len(part) : part[i] \in Lower \cup Upper

WellFormed(s) ==
    /\ Len(s) <= 254
    /\ Cardinality(AtSigns(s)) = 1
    /\ LocalOf(s) # <<>>
    /\ Over(LocalOf(s), Alphanumerics \cup {".", "_", "%", "+", "-"})
    /\ Over(DomainOf(s), Alphanumerics \cup {".", "-"})
    /\ ~DotAtAnEnd(LocalOf(s)) /\ ~DotAtAnEnd(DomainOf(s))
    /\ ~TwoDots(s)
    /\ EndsInLabel(DomainOf(s))

C18_EmailAccepted ==
    \A p \in DOMAIN calls :
        (/\ calls[p].op = "NewUser" /\ WellFormed(calls[p].email)
         /\ NameAccepted(calls[p].name))
        => calls[p].err = NoErr /\ calls[p].ret.Email = calls[p].email

\* NewUser has accepted a well-formed email of exactly 254 characters
C18_Witness ==
    \E p \in DOMAIN calls :
        /\ calls[p].op = "NewUser" /\ calls[p].err = NoErr
        /\ WellFormed(calls[p].email)
        /\ Len(calls[p].email) = 254

-----------------------------------------------------------------------------
(* C19: NewUser (given a valid email) and UpdateName trim the name first and
   accept exactly the names whose trimmed length is between 1 and 255
   characters; a rejected name gives InvalidName and leaves the entity as it
   was (none, for NewUser); the name kept is the trimmed one.  (Stated as
   claimed; the code violates it: isValidName compares len(name), the number
   of bytes, with maxNameLength.) *)
ValidatesName(p) ==
    \/ calls[p].op = "UpdateName"
    \/ calls[p].op = "NewUser" /\ isValidEmail(calls[p].email)

Characters(s) == Len(s)

\* C19: a name is accepted exactly when its trimmed length is in 1..255
\* characters, and the trimmed name is what the entity keeps.
C19_NameLength ==
    \A p \in DOMAIN calls :
        ValidatesName(p) =>
            LET trimmed == TrimSpace(calls[p].name)
            IN  IF Characters(trimmed) >= 1 /\ Characters(trimmed) <= 255
                THEN calls[p].err = NoErr /\ calls[p].user.Name = trimmed
                ELSE calls[p].err = ErrInvalidName /\ calls[p].user = calls[p].old

-----------------------------------------------------------------------------
(* C20: trimming then validating a name is idempotent: a call given the name
   s and a call given the name trim(s) end with the same error and, when they
   succeed, the same name in the entity; and UpdateName with the entity's own
   name succeeds and leaves the name as it is. *)
C20_TrimOnceOrTwice ==
    \A p, q \in DOMAIN calls :
        (/\ ValidatesName(p) /\ ValidatesName(q)
         /\ calls[q].name = TrimSpace(calls[p].name))
        => /\ calls[p].err = calls[q].err
           /\ calls[p].err = NoErr => calls[p].user.Name = calls[q].user.Name

C20_SelfRename ==
    \A p \in DOMAIN calls :
        (calls[p].op = "UpdateName" /\ calls[p].name = calls[p].old.Name) =>
            calls[p].err = NoErr /\ calls[p].user.Name = calls[p].old.Name

\* C20: validating a trimmed name gives what validating the name gave, and a
\* user renamed to its own name keeps it.
C20_TrimIdempotent == C20_TrimOnceOrTwice /\ C20_SelfRename

\* a user made with a padded name has been renamed to that name trimmed, which
\* is the name it had
C20_Witness ==
    \E p, q \in DOMAIN calls :
        /\ calls[p].op = "NewUser" /\ calls[p].err = NoErr
        /\ calls[p].name # TrimSpace(calls[p].name)
        /\ calls[q].op = "UpdateName" /\ calls[q].name = TrimSpace(calls[p].name)
        /\ calls[q].name = calls[q].old.Name
        /\ calls[q].err = NoErr

-----------------------------------------------------------------------------
(* C25: no use case repeats a store call: a CreateUser makes GetByEmail once
   and then Create at most once, an UpdateUser GetByID once and then Update at
   most once, every other use case its one store call; and every use case
   that has started returns, also when store calls fail. *)
C25_StoreCalls ==
    \A p \in DOMAIN calls :
        /\ calls[p].op = "CreateUser" =>
            Made(p) \in {<<"GetByEmail">>, <<"GetByEmail", "Create">>}
        /\ calls[p].op = "UpdateUser" =>
            Made(p) \in {<<"GetByID">>, <<"GetByID", "Update">>}
        /\ calls[p].op = "GetUser" => Made(p) = <<"GetByID">> /\ Done(p)
        /\ calls[p].op = "GetUserByEmail" => Made(p) = <<"GetByEmail">> /\ Done(p)
        /\ calls[p].op = "DeleteUser" => Made(p) = <<"Delete">> /\ Done(p)
        /\ calls[p].op = "ListUsers" => Made(p) = <<"List">> /\ Done(p)
        /\ (Done(p) /\ Len(calls[p].log) = 2) =>
            (calls[p].log[1].err = NoErr \/ C14_GoesOn(p, 1))

C25_Returns ==
    \A p \in 1..MaxFairCalls : (p \in DOMAIN calls) ~> (p \in DOMAIN calls /\ Done(p))

\* C25: each use case makes each of its store calls at most once and returns.
C25_NoRetry == []C25_StoreCalls /\ C25_Returns

\* a CreateUser whose repo.Create failed has returned after that one call,
\* while another use case is still under way
C25_Witness ==
    \E p, q \in DOMAIN calls :
        /\ calls[p].op = "CreateUser" /\ Done(p)
        /\ Made(p) = <<"GetByEmail", "Create">>
        /\ calls[p].log[2].err # NoErr
        /\ ~Done(q)

-----------------------------------------------------------------------------
(* C26: when the user an UpdateUser has fetched is no longer live at the time
   of its repo.Update, deleted by a DeleteUser in between, the UpdateUser
   returns NotFound and no user and the table stays as it was; and no step
   ever changes a soft-deleted row. *)
C26_LateUpdateStep ==
    \A p \in DOMAIN calls :
        (/\ calls[p].op = "UpdateUser" /\ calls[p].pc = "Update"
         /\ calls'[p].pc = "done"
         /\ ~HasLive(calls[p].user.ID))
        => /\ calls'[p].err = ErrUserNotFound
           /\ calls'[p].ret = NilUser
           /\ db' = db

C26_DeletedRowKept ==
    \A i \in DOMAIN db : db[i].DeletedAt # 0 => db'[i] = db[i]

\* C26: an update that comes after a concurrent delete returns NotFound and
\* the deleted row is neither changed nor made live again.
C26_UpdateAfterDelete == [][C26_LateUpdateStep /\ C26_DeletedRowKept]_vars

\* a DeleteUser has come between the fetch and the update of an UpdateUser,
\* which returned NotFound
C26_Witness ==
    \E p, d \in DOMAIN calls :
        /\ calls[p].op = "UpdateUser" /\ Done(p)
        /\ Made(p) = <<"GetByID", "Update">>
        /\ calls[p].err = ErrUserNotFound
        /\ Deleted(d) /\ calls[d].id = calls[p].id /\ ~After(d, p)
        /\ \E m \in AllRows : m.ID = calls[p].id /\ m.DeletedAt # 0 /\ m.Name = calls[p].old.Name

-----------------------------------------------------------------------------
(* C27: the stored updated_at of a user never decreases, whatever the
   interleaving of UpdateUser calls on it; and once every UpdateUser on a live
   user has returned and one has succeeded, the stored name and updated_at
   are the Name and UpdatedAt of the user one of them returned.  (Stated as
   claimed; the code violates the second part for updated_at: the store
   stamps it when it writes the row, see C8.) *)
C27_NeverDecreases ==
    [][\A i \in DOMAIN db : db'[i].UpdatedAt >= db[i].UpdatedAt]_vars

\* the UpdateUser calls on the user id, and whether they have all returned
Renames(id) == {p \in DOMAIN calls : calls[p].op = "UpdateUser" /\ calls[p].id = id}

Settled(id) ==
    /\ \A p \in Renames(id) : Done(p)
    /\ \E p \in Renames(id) : calls[p].err = NoErr

C27_LastWriterName ==
    \A m \in LiveRows :
        Settled(m.ID) =>
            \E w \in Renames(m.ID) : calls[w].err = NoErr /\ m.Name = calls[w].ret.Name

C27_LastWriter ==
    \A m \in LiveRows :
        Settled(m.ID) =>
            \E w \in Renames(m.ID) :
                /\ calls[w].err = NoErr
                /\ m.Name = calls[w].ret.Name
                /\ m.UpdatedAt = calls[w].ret.UpdatedAt

\* C27: the stored updatedAt never decreases and, after the concurrent
\* UpdateUser calls, the stored name and updatedAt are those of one call.
C27_UpdatedAtMonotone == C27_NeverDecreases /\ []C27_LastWriter

-----------------------------------------------------------------------------
(* C28: over a table that no call changes any more, the pages ListUsers(k, 0)
   and ListUsers(k, k) of at most 2k live users have no user in common and
   together hold every live user, each once, also when users have the same
   created_at.  (Stated as claimed; the code violates it: ORDER BY created_at
   DESC leaves the order of users with equal created_at open, and it may
   differ from one query to the next.) *)
PageIDs(q) == {calls[q].users[i].ID : i \in DOMAIN calls[q].users}

\* q is a page of the table as it now is: every call that is not a ListUsers
\* had returned before q started
OfThisTable(q) ==
    /\ calls[q].op = "ListUsers"
    /\ \A r \in DOMAIN calls : calls[r].op # "ListUsers" => After(r, q)

FirstTwoPages(p, q) ==
    /\ OfThisTable(p) /\ OfThisTable(q)
    /\ calls[p].limit = calls[q].limit
    /\ calls[p].offset = 0 /\ calls[q].offset = calls[p].limit
    /\ Cardinality(LiveRows) <= 2 * calls[p].limit

Partition(p, q) ==
    /\ PageIDs(p) \cap PageIDs(q) = {}
    /\ PageIDs(p) \cup PageIDs(q) = {m.ID : m \in LiveRows}
    /\ Len(calls[p].users) + Len(calls[q].users) = Cardinality(LiveRows)

\* the same for users created at different times only
C28_DistinctTimes ==
    \A p, q \in DOMAIN calls :
        (/\ FirstTwoPages(p, q)
         /\ \A m, n \in LiveRows : m # n => m.CreatedAt # n.CreatedAt)
        => Partition(p, q)

\* C28: consecutive pages are disjoint and together hold every live user
\* once, also when users share a createdAt.
C28_PagesPartition ==
    \A p, q \in DOMAIN calls : FirstTwoPages(p, q) => Partition(p, q)

-----------------------------------------------------------------------------
(* C21: a handler answers a service error with the status of its kind:
   InvalidEmail and InvalidName with 400, DuplicateEmail with 409, NotFound
   with 404, each with the error's own message, and every other error with
   500 and the text "internal server error", never the error's message; a
   service call that returned no error is answered with a 2xx status. *)
Answered(r) == requests[r].statusCode # 0 /\ requests[r].call # 0

C21_StatusOfError ==
    \A r \in DOMAIN requests :
        Answered(r) =>
            LET err == calls[requests[r].call].err
                statusCode == requests[r].statusCode
                errorMsg == requests[r].errorMsg
            IN  /\ err \in {ErrInvalidEmail, ErrInvalidName} =>
                    statusCode = 400 /\ errorMsg = err
                /\ err = ErrDuplicateEmail => statusCode = 409 /\ errorMsg = err
                /\ err = ErrUserNotFound => statusCode = 404 /\ errorMsg = err
                /\ err \notin {NoErr, ErrInvalidEmail, ErrInvalidName, ErrDuplicateEmail,
                               ErrUserNotFound} =>
                    /\ statusCode = 500
                    /\ errorMsg = <<"internal server error">>
                    /\ errorMsg # err
                /\ err = NoErr => statusCode \in {200, 201, 204}

\* a request whose service call failed in the database has been answered with
\* 500, and one for a user that is not there with 404
C21_Witness ==
    \E r, q \in DOMAIN requests :
        /\ Answered(r) /\ calls[requests[r].call].err = ErrContext
        /\ requests[r].statusCode = 500
        /\ Answered(q) /\ requests[q].statusCode = 404

-----------------------------------------------------------------------------
(* C22: the ListUsers handler calls the service only with 1 <= limit <= 100
   and offset >= 0.  A request whose limit parses to more than 100 is
   answered with 400 and makes no service call; a limit that is missing, does
   not parse or is not positive becomes 10, an offset that is missing, does
   not parse or is negative becomes 0, and a limit (offset) that parses to a
   value in range is passed on as it is. *)
\* what a query parameter says, read independently of strconv.Atoi
Numeral(str) == str # <<>> /\ \A i \in DOMAIN str : str[i] \in Digit

Says(str) ==
    IF Numeral(str) /\ Len(str) <= 3 THEN Decimal(str)
    ELSE IF str # <<>> /\ Head(str) = "-" /\ Numeral(Tail(str)) /\ Len(str) <= 4
    THEN 0 - Decimal(Tail(str))
    ELSE IF str # <<>> /\ Head(str) = "+" /\ Numeral(Tail(str)) /\ Len(str) <= 4
    THEN Decimal(Tail(str))
    ELSE 0

\* the parameter is missing, or no number of the range of int
Unparseable(str) ==
    ~(Numeral(str) /\ Len(str) <= 3)
        /\ ~(str # <<>> /\ Head(str) \in {"-", "+"} /\ Numeral(Tail(str)) /\ Len(str) <= 4)

C22_ListRequests ==
    \A r \in DOMAIN requests :
        requests[r].handler = "ListUsers" =>
            LET limitStr == requests[r].limitStr
                offsetStr == requests[r].offsetStr
                call == requests[r].call
            IN  IF ~Unparseable(limitStr) /\ Says(limitStr) > 100
                THEN call = 0 /\ requests[r].statusCode = 400
                ELSE /\ call # 0 /\ calls[call].op = "ListUsers"
                     /\ calls[call].limit =
                            IF Unparseable(limitStr) \/ Says(limitStr) <= 0 THEN 10
                            ELSE Says(limitStr)
                     /\ calls[call].offset =
                            IF Unparseable(offsetStr) \/ Says(offsetStr) < 0 THEN 0
                            ELSE Says(offsetStr)

C22_ServiceCalls ==
    \A p \in DOMAIN calls :
        calls[p].op = "ListUsers" =>
            /\ calls[p].limit >= 1 /\ calls[p].limit <= 100
            /\ calls[p].offset >= 0

-----------------------------------------------------------------------------
(* The health checker *)

\* the Check calls that have returned
Checked == {r \in DOMAIN runs : runs[r].op = "Check" /\ runs[r].pc = "done"}

\* the names of the checks a Check has called
Ran(r) == {runs[r].ran[i].name : i \in DOMAIN runs[r].ran}

\* the rounds of a Check in which the check returned an error
Failed(r) == {i \in DOMAIN runs[r].ran : runs[r].ran[i].err # NoErr}

HealthyResult == [Status |-> StatusHealthy, Error |-> <<>>]

\* C23: Check returns one result for each registered name and no other; the
\* result of a check is unhealthy with its error text exactly when the check
\* returned an error, and the overall status is unhealthy exactly when some
\* check returned an error.
C23_CheckResult ==
    \A r \in Checked :
        LET result == runs[r].result
            ran == runs[r].ran
        IN  /\ DOMAIN result.Checks = DOMAIN runs[r].registered
            /\ Ran(r) = DOMAIN runs[r].registered
            /\ Len(ran) = Cardinality(DOMAIN runs[r].registered)
            /\ \A i \in DOMAIN ran :
                  result.Checks[ran[i].name] =
                      IF ran[i].err # NoErr
                      THEN [Status |-> StatusUnhealthy, Error |-> ran[i].err]
                      ELSE HealthyResult
            /\ result.Status = (IF Failed(r) # {} THEN StatusUnhealthy
                                ELSE StatusHealthy)

\* a Check of two registered checks has returned, one of them having returned
\* an error, and a Check with nothing registered has returned
C23_Witness ==
    \E r, q \in Checked :
        /\ Len(runs[r].ran) = 2 /\ Cardinality(Failed(r)) = 1
        /\ runs[r].result.Status = StatusUnhealthy
        /\ runs[q].registered = <<>> /\ runs[q].result.Status = StatusHealthy

\* C24: Liveness returns healthy with the one healthy entry "liveness" and
\* calls no check, whatever is registered.
C24_Liveness ==
    \A r \in DOMAIN runs :
        runs[r].op = "Liveness" =>
            /\ runs[r].result = [Status |-> StatusHealthy,
                                 Checks |-> [n \in {"liveness"} |-> HealthyResult]]
            /\ runs[r].ran = <<>>

\* Liveness has returned while a check that returns an error and a check that
\* waits for the deadline were registered
C24_Witness ==
    /\ \E n, m \in DOMAIN checks : checks[n] = "error" /\ checks[m] = "slow"
    /\ runs # <<>> /\ runs[Len(runs)].op = "Liveness"

\* the check the AddCheck calls before the r-th call left under a name, ""
\* when there is none
LastAdd(r, name) ==
    LET adds == {w \in 1..(r - 1) : runs[w].op = "AddCheck" /\ runs[w].name = name}
    IN  IF adds = {} THEN ""
        ELSE runs[CHOOSE w \in adds : \A v \in adds : v <= w].check

\* what a CheckFunc can return
Outcomes(check) == Returns(check, TRUE)

C29_RunSeesStart ==
    \A r \in DOMAIN runs :
        runs[r].op = "Check" =>
            /\ DOMAIN runs[r].result.Checks \subseteq DOMAIN runs[r].registered
            /\ \A i \in DOMAIN runs[r].ran :
                  /\ runs[r].ran[i].name \in DOMAIN runs[r].registered
                  /\ runs[r].ran[i].err \in
                        Outcomes(runs[r].registered[runs[r].ran[i].name])
            /\ r \in Checked =>
                  DOMAIN runs[r].result.Checks = DOMAIN runs[r].registered

C29_LaterRuns ==
    \A r \in DOMAIN runs :
        runs[r].op = "Check" =>
            \A name \in CheckNames :
                IF LastAdd(r, name) = "" THEN name \notin DOMAIN runs[r].registered
                ELSE /\ name \in DOMAIN runs[r].registered
                     /\ runs[r].registered[name] = LastAdd(r, name)

C29_NoChangeMidRun == Readers # {} => checks' = checks

\* C29: no registration takes effect while a Check is under way: the result
\* of a Check holds the checks registered when it took the read lock, and an
\* AddCheck under a registered name replaces the check for the later runs.
C29_AddCheckAtomic ==
    /\ [](C29_RunSeesStart /\ C29_LaterRuns)
    /\ [][C29_NoChangeMidRun]_vars

\* an AddCheck under a registered name has waited for a Check under way, that
\* Check has returned the result of the old check and a later one the result
\* of the new check
C29_Witness ==
    /\ Len(runs) = 4
    /\ runs[1].op = "AddCheck" /\ runs[1].check = "error"
    /\ 2 \in Checked /\ runs[2].result.Status = StatusUnhealthy
    /\ runs[3].op = "AddCheck" /\ runs[3].name = runs[1].name
    /\ runs[3].check = "nil" /\ runs[3].waited /\ runs[3].pc = "done"
    /\ 4 \in Checked /\ runs[4].result.Status = StatusHealthy
    /\ DOMAIN runs[4].result.Checks = {runs[1].name}

C30_Terminates ==
    \A r \in 1..MaxRuns : (r \in Readers) ~> (r \in Checked)

C30_Reported ==
    \A r \in DOMAIN runs :
        runs[r].op = "Check" =>
            \A i \in DOMAIN runs[r].ran :
                runs[r].registered[runs[r].ran[i].name] = "slow" =>
                    /\ runs[r].expired
                    /\ runs[r].ran[i].err = DeadlineExceeded
                    /\ runs[r].result.Checks[runs[r].ran[i].name] =
                          [Status |-> StatusUnhealthy, Error |-> DeadlineExceeded]
                    /\ runs[r].result.Status = StatusUnhealthy

\* C30: a Check whose checks return once the context is done returns; a
\* check that waited for the deadline is reported unhealthy with "context
\* deadline exceeded", and the overall status is unhealthy.
C30_SharedDeadline == C30_Terminates /\ []C30_Reported

\* a Check of two checks that both waited for the one deadline has returned
C30_Witness ==
    \E r \in Checked :
        /\ Len(runs[r].ran) = 2
        /\ \A i \in DOMAIN runs[r].ran : runs[r].ran[i].err = DeadlineExceeded
        /\ runs[r].expired

====
